---------------------------- MODULE Spec2Model ----------------------------
(***************************************************************************)
(* Model of the embedded motor-controller driver: the register file        *)
(* (device_registers.c), the motor state machine (motor_controller.c), the *)
(* sensor array with its sample ring (sensor_array.c) and the interrupt    *)
(* controller (interrupt_handler.c).                                       *)
(*                                                                         *)
(* Each component has its own specification over the same variables:       *)
(* Spec (motor), SpecReg (register file), SpecSensor, SpecIrq.  The        *)
(* variables of the other components keep their constructed values.        *)
(* SpecIrqAsync runs the interrupt calls statement by statement with the   *)
(* bridged signals in between; SpecLoop and FairSpecLoop run the driver    *)
(* loop of main.c against a client of the shared region (shared_mem.c).    *)
(*                                                                         *)
(* Encoding of 32-bit words.  The model checker's integers are signed      *)
(* 32-bit, so a uint32_t word w is stored as its two's-complement reading: *)
(* w itself when w < 2^31 and w - 2^32 otherwise (0xFFFFFFFF is -1).  All  *)
(* unsigned comparisons and arithmetic go through the U32* operators       *)
(* below, which compute on this encoding exactly what C computes mod 2^32. *)
(***************************************************************************)
EXTENDS Integers, Sequences, FiniteSets, TLC

(* ------------------------------------------------------------------ *)
(* Bounds of the model                                                *)
(* ------------------------------------------------------------------ *)

\* motor_update ticks in state running are explored while they leave
\* |position| <= MaxPos
MaxPos == 3

\* ticks on a current_speed that has wrapped below zero are explored while
\* current_speed >= 2^32 - MaxWrapTicks * SPEED_RAMP_RATE
MaxWrapTicks == 2

\* the tick counter of a ramp-up / ramp-down run saturates at TickCap
TickCap == 21

\* sensor triggers are explored while every sample_count stays <= MaxSamples
MaxSamples == 2

\* the samples pushed in a run that checks the order of the ring are numbered
\* modulo SampleValues (more than the ring holds, so buffered entries differ)
SampleValues == 17

\* the clients of the shared region send at most MaxCommands commands
\* between them
MaxCommands == 3

\* the driver loop is explored for MaxTicks iterations (a loop that has been
\* told to stop goes on to its exit whatever the count)
MaxTicks == 4

\* drains are explored while the counting handler has been called fewer than
\* MaxCalls times
MaxCalls == 3

(* ------------------------------------------------------------------ *)
(* uint32_t / int32_t arithmetic                                      *)
(* ------------------------------------------------------------------ *)

MinInt32 == -2147483647 - 1
MaxInt32 == 2147483646 + 1

\* unsigned <= and < on encoded words
U32Le(a, b) == IF (a >= 0) = (b >= 0) THEN a <= b ELSE a >= 0
U32Lt(a, b) == IF (a >= 0) = (b >= 0) THEN a < b ELSE a >= 0

\* (a + k) mod 2^32, for 0 <= k < 2^31
U32Add(a, k) ==
    IF a > MaxInt32 - k THEN (a + MinInt32) + (k + MinInt32) ELSE a + k

\* (a - k) mod 2^32, for 0 <= k < 2^31
U32Sub(a, k) ==
    IF a < MinInt32 + k THEN (a - MinInt32) + ((MaxInt32 - k) + 1) ELSE a - k

\* a / 100 on the unsigned reading; 2^31 = 21474836 * 100 + 48
U32Div100(a) ==
    IF a >= 0 THEN a \div 100
    ELSE LET h == a - MinInt32
         IN  21474836 + (h \div 100) + (((h % 100) + 48) \div 100)

RECURSIVE BitAnd(_, _)
BitAnd(a, b) ==
    IF a = 0 \/ b = 0 THEN 0
    ELSE IF a = -1 THEN b
    ELSE IF b = -1 THEN a
    ELSE ((a % 2) * (b % 2)) + 2 * BitAnd(a \div 2, b \div 2)

RECURSIVE BitOr(_, _)
BitOr(a, b) ==
    IF a = 0 THEN b
    ELSE IF b = 0 THEN a
    ELSE IF a = -1 \/ b = -1 THEN -1
    ELSE (IF a % 2 = 1 \/ b % 2 = 1 THEN 1 ELSE 0) + 2 * BitOr(a \div 2, b \div 2)

\* ~a; written so that ~0x80000000 does not leave the 32-bit integers
BitNot(a) == (-1) - a

Abs(n) == IF n < 0 THEN -n ELSE n
Min(a, b) == IF a <= b THEN a ELSE b
Max(a, b) == IF a >= b THEN a ELSE b

(* ------------------------------------------------------------------ *)
(* Register file (device_registers.h / device_registers.c)            *)
(* ------------------------------------------------------------------ *)

REG_MOTOR_CTRL     == 0
REG_MOTOR_STATUS   == 4
REG_MOTOR_SPEED    == 8
REG_MOTOR_POSITION == 12
REG_SENSOR_CTRL    == 16
REG_SENSOR_DATA    == 20
REG_SENSOR_STATUS  == 24
REG_IRQ_STATUS     == 28
REG_IRQ_ENABLE     == 32

MOTOR_CTRL_ENABLE == 1
MOTOR_CTRL_DIR_CW == 2
MOTOR_CTRL_BRAKE  == 4
MOTOR_CTRL_RESET  == 128

MOTOR_STATUS_RUNNING  == 1
MOTOR_STATUS_FAULT    == 2
MOTOR_STATUS_STALL    == 4
MOTOR_STATUS_OVERHEAT == 8

REGISTER_FILE_SIZE == 36

RegWords == 0 .. ((REGISTER_FILE_SIZE \div 4) - 1)

\* reg_init: memset of the nine words
reg_init == [w \in RegWords |-> 0]

reg_read(rf, offset) ==
    IF U32Le(REGISTER_FILE_SIZE, offset) THEN -1 ELSE rf[offset \div 4]

\* variant of reg_write whose range check also rejects the last word
reg_write_RejectsLastWord(rf, offset, value) ==
    IF U32Le(REGISTER_FILE_SIZE - 4, offset) THEN rf
    ELSE [rf EXCEPT ![offset \div 4] = value]

\* variant of reg_clear_bits without the range check: an offset past the
\* file lands on the last word
reg_clear_bits_NoRangeCheck(rf, offset, bits) ==
    [rf EXCEPT ![IF U32Le(REGISTER_FILE_SIZE, offset)
                 THEN (REGISTER_FILE_SIZE \div 4) - 1
                 ELSE offset \div 4] = BitAnd(@, BitNot(bits))]

\* variant of reg_set_bits that stores the mask instead of or-ing it in
reg_set_bits_Stores(rf, offset, bits) ==
    IF U32Le(REGISTER_FILE_SIZE, offset) THEN rf
    ELSE [rf EXCEPT ![offset \div 4] = bits]

reg_write(rf, offset, value) ==
    IF U32Le(REGISTER_FILE_SIZE, offset) THEN rf
    ELSE [rf EXCEPT ![offset \div 4] = value]

reg_set_bits(rf, offset, bits) ==
    IF U32Le(REGISTER_FILE_SIZE, offset) THEN rf
    ELSE [rf EXCEPT ![offset \div 4] = BitOr(@, bits)]

reg_clear_bits(rf, offset, bits) ==
    IF U32Le(REGISTER_FILE_SIZE, offset) THEN rf
    ELSE [rf EXCEPT ![offset \div 4] = BitAnd(@, BitNot(bits))]

\* (word & bits) != 0, the test the C code makes on a register word
TestBits(word, bits) == BitAnd(word, bits) # 0

(* ------------------------------------------------------------------ *)
(* Motor controller (motor_controller.h / motor_controller.c)         *)
(* ------------------------------------------------------------------ *)

MOTOR_STATE_IDLE     == 0
MOTOR_STATE_STARTING == 1
MOTOR_STATE_RUNNING  == 2
MOTOR_STATE_STOPPING == 3
MOTOR_STATE_FAULT    == 4
MOTOR_STATE_RECOVERY == 5

MOTOR_DIR_CCW == 0
MOTOR_DIR_CW  == 1

MOTOR_FAULT_NONE        == 0
MOTOR_FAULT_STALL       == 1
MOTOR_FAULT_OVERHEAT    == 2
MOTOR_FAULT_OVERCURRENT == 3

MAX_SPEED       == 10000
SPEED_RAMP_RATE == 500

MotorStates == {MOTOR_STATE_IDLE, MOTOR_STATE_STARTING, MOTOR_STATE_RUNNING,
                MOTOR_STATE_STOPPING, MOTOR_STATE_FAULT, MOTOR_STATE_RECOVERY}
Directions  == {MOTOR_DIR_CCW, MOTOR_DIR_CW}
FaultCodes  == {MOTOR_FAULT_NONE, MOTOR_FAULT_STALL, MOTOR_FAULT_OVERHEAT,
                MOTOR_FAULT_OVERCURRENT}

\* the kinds of fault motor_inject_fault is called with
FaultKinds  == FaultCodes \ {MOTOR_FAULT_NONE}

\* the status bits motor_update tests before the state machine
StatusFaultMask ==
    BitOr(MOTOR_STATUS_FAULT, BitOr(MOTOR_STATUS_STALL, MOTOR_STATUS_OVERHEAT))

\* The input alphabets of a run.  The product of every speed with every fault
\* kind is too large to explore exhaustively, so a run draws its inputs from
\* one of two alphabets, fixed at Init:
\*   "speed": speeds 0, a value below the ramp step that is no multiple of
\*            it, the maximum, a value above it and 0xFFFFFFFF (encoded -1);
\*            the stall fault only; ramp-up and ramp-down runs are tracked;
\*   "fault": the two small speeds; every fault kind.
Envs ==
    { [name |-> "speed", speeds |-> {0, 300, MAX_SPEED, 99999, -1},
       faults |-> {MOTOR_FAULT_STALL}, track |-> TRUE],
      [name |-> "fault", speeds |-> {0, 300},
       faults |-> FaultKinds, track |-> FALSE] }

VARIABLES
    env,        \* the input alphabets of this run, fixed at Init
    regs,       \* register_file_t.regs, word index -> encoded word
    mc,         \* motor_controller_t (without the regs pointer)
    sa,         \* sensor_array_t (without the regs pointer)
    ic,         \* interrupt_controller_t (without the pointers)
    last_op,    \* name of the operation called last
    last_arg,   \* the arguments of that call which the properties refer to
                \* (motor: the fault kind of motor_inject_fault, else 0)
    ret,        \* the value that call returned
    out,        \* the int32_t a call stored through its result pointer
    pushed,     \* history: the values the sample ring accepted and has not
                \* yet handed out, oldest first
    phase,      \* "ramp": motor_start from idle, then only update ticks;
                \* "drain": motor_stop from running, then only update ticks;
                \* "free" otherwise
    ticks,      \* update ticks since the phase began (saturating at TickCap)
    log,        \* history: the handler calls of the last irq_process_pending,
                \* in the order made, as [source, context]
    owed,       \* history: the sources a bridged signal was delivered for
                \* since their handler last ran
    drv,        \* the driver thread of main.c: where it stands and its locals
    shm,        \* the shared region of shared_mem.c
    cli         \* the client processes of the shared region

vars == <<env, regs, mc, sa, ic, last_op, last_arg, ret, out, pushed, phase,
          ticks, log, owed, drv, shm, cli>>

\* the values of drv, shm and cli where no driver loop runs and no shared
\* region exists (the component tests of test_driver.c)
NoDriver == [pc |-> "none"]
NoRegion == [created |-> FALSE]
NoClient == [pc |-> "none"]

NoLoop ==
    /\ log = <<>>
    /\ owed = {}
    /\ drv = NoDriver
    /\ shm = NoRegion
    /\ cli = NoClient

\* motor_init on a register file fresh from reg_init
motor_init(rf) ==
    [mc   |-> [state |-> MOTOR_STATE_IDLE, fault_code |-> MOTOR_FAULT_NONE,
               target_speed |-> 0, current_speed |-> 0, position |-> 0,
               direction |-> MOTOR_DIR_CCW],
     regs |-> reg_write(reg_write(reg_write(reg_write(rf,
                  REG_MOTOR_CTRL, 0), REG_MOTOR_STATUS, 0),
                  REG_MOTOR_SPEED, 0), REG_MOTOR_POSITION, 0),
     ret  |-> 0]

motor_start(m, rf, speed, dir) ==
    IF m.state = MOTOR_STATE_FAULT THEN [mc |-> m, regs |-> rf, ret |-> -2]
    ELSE LET sp   == IF U32Lt(MAX_SPEED, speed) THEN MAX_SPEED ELSE speed
             ctrl == IF dir = MOTOR_DIR_CW
                     THEN BitOr(MOTOR_CTRL_ENABLE, MOTOR_CTRL_DIR_CW)
                     ELSE MOTOR_CTRL_ENABLE
         IN  [mc   |-> [m EXCEPT !.target_speed = sp, !.direction = dir,
                                 !.state = MOTOR_STATE_STARTING],
              regs |-> reg_write(rf, REG_MOTOR_CTRL, ctrl),
              ret  |-> 0]

motor_stop(m, rf) ==
    IF m.state = MOTOR_STATE_IDLE THEN [mc |-> m, regs |-> rf, ret |-> 0]
    ELSE [mc   |-> [m EXCEPT !.target_speed = 0, !.state = MOTOR_STATE_STOPPING],
          regs |-> reg_clear_bits(rf, REG_MOTOR_CTRL, MOTOR_CTRL_ENABLE),
          ret  |-> 0]

\* variant of motor_brake that forgets to clear the enable bit
motor_brake_KeepsEnable(m, rf) ==
    [mc   |-> [m EXCEPT !.target_speed = 0, !.current_speed = 0,
                        !.state = MOTOR_STATE_IDLE],
     regs |-> reg_clear_bits(
                  reg_write(
                      reg_set_bits(rf, REG_MOTOR_CTRL, MOTOR_CTRL_BRAKE),
                      REG_MOTOR_SPEED, 0),
                  REG_MOTOR_STATUS, MOTOR_STATUS_RUNNING),
     ret  |-> 0]

motor_brake(m, rf) ==
    [mc   |-> [m EXCEPT !.target_speed = 0, !.current_speed = 0,
                        !.state = MOTOR_STATE_IDLE],
     regs |-> reg_clear_bits(
                  reg_write(
                      reg_clear_bits(
                          reg_set_bits(rf, REG_MOTOR_CTRL, MOTOR_CTRL_BRAKE),
                          REG_MOTOR_CTRL, MOTOR_CTRL_ENABLE),
                      REG_MOTOR_SPEED, 0),
                  REG_MOTOR_STATUS, MOTOR_STATUS_RUNNING),
     ret  |-> 0]

\* variant of motor_set_speed without the fault check
motor_set_speed_NoFaultCheck(m, rf, speed) ==
    [mc   |-> [m EXCEPT !.target_speed =
                   IF U32Lt(MAX_SPEED, speed) THEN MAX_SPEED ELSE speed],
     regs |-> rf,
     ret  |-> 0]

motor_set_speed(m, rf, speed) ==
    IF m.state = MOTOR_STATE_FAULT THEN [mc |-> m, regs |-> rf, ret |-> -2]
    ELSE [mc   |-> [m EXCEPT !.target_speed =
                        IF U32Lt(MAX_SPEED, speed) THEN MAX_SPEED ELSE speed],
          regs |-> rf,
          ret  |-> 0]

\* variant of motor_reset that resets the whole register file
motor_reset_ClearsAllRegisters(m, rf) ==
    [mc   |-> [m EXCEPT !.state = MOTOR_STATE_IDLE,
                        !.fault_code = MOTOR_FAULT_NONE,
                        !.current_speed = 0, !.target_speed = 0],
     regs |-> reg_init,
     ret  |-> 0]

motor_reset(m, rf) ==
    [mc   |-> [m EXCEPT !.state = MOTOR_STATE_IDLE,
                        !.fault_code = MOTOR_FAULT_NONE,
                        !.current_speed = 0, !.target_speed = 0],
     regs |-> reg_clear_bits(
                  reg_write(
                      reg_write(
                          reg_write(rf, REG_MOTOR_CTRL, MOTOR_CTRL_RESET),
                          REG_MOTOR_STATUS, 0),
                      REG_MOTOR_SPEED, 0),
                  REG_MOTOR_CTRL, MOTOR_CTRL_RESET),
     ret  |-> 0]

\* motor_update, case MOTOR_STATE_STARTING
UpdateStarting(m, rf) ==
    LET ramped == U32Add(m.current_speed, SPEED_RAMP_RATE)
        m1 == IF U32Lt(m.current_speed, m.target_speed)
              THEN IF U32Le(m.target_speed, ramped)
                   THEN [m EXCEPT !.current_speed = m.target_speed,
                                  !.state = MOTOR_STATE_RUNNING]
                   ELSE [m EXCEPT !.current_speed = ramped]
              ELSE [m EXCEPT !.state = MOTOR_STATE_RUNNING]
    IN  [mc   |-> m1,
         regs |-> reg_set_bits(reg_write(rf, REG_MOTOR_SPEED, m1.current_speed),
                               REG_MOTOR_STATUS, MOTOR_STATUS_RUNNING),
         ret  |-> 0]

\* variant of RunningSpeed that ramps up without clamping at the target
RunningSpeed_NoUpperClamp(m) ==
    IF U32Lt(m.current_speed, m.target_speed)
    THEN U32Add(m.current_speed, SPEED_RAMP_RATE)
    ELSE IF U32Lt(m.target_speed, m.current_speed)
    THEN LET down == U32Sub(m.current_speed, SPEED_RAMP_RATE)
         IN  IF U32Lt(down, m.target_speed) THEN m.target_speed ELSE down
    ELSE m.current_speed

\* motor_update, case MOTOR_STATE_RUNNING: the speed adjustment
RunningSpeed(m) ==
    IF U32Lt(m.current_speed, m.target_speed)
    THEN LET up == U32Add(m.current_speed, SPEED_RAMP_RATE)
         IN  IF U32Lt(m.target_speed, up) THEN m.target_speed ELSE up
    ELSE IF U32Lt(m.target_speed, m.current_speed)
    THEN LET down == U32Sub(m.current_speed, SPEED_RAMP_RATE)
         IN  IF U32Lt(down, m.target_speed) THEN m.target_speed ELSE down
    ELSE m.current_speed

\* variant of RunningPosition that integrates clockwise whatever the direction
RunningPosition_AlwaysCW(m, speed) == m.position + U32Div100(speed)

\* motor_update, case MOTOR_STATE_RUNNING: the position integration.
\* (int32_t)(current_speed / 100) is at most 42949672; the sum stays inside
\* int32_t because the tick is only explored while |position| <= MaxPos.
RunningPosition(m, speed) ==
    IF m.direction = MOTOR_DIR_CW
    THEN m.position + U32Div100(speed)
    ELSE m.position - U32Div100(speed)

\* variant of UpdateRunning that does not write MOTOR_SPEED
UpdateRunning_NoSpeedWrite(m, rf) ==
    LET sp  == RunningSpeed(m)
        pos == RunningPosition(m, sp)
    IN  [mc   |-> [m EXCEPT !.current_speed = sp, !.position = pos],
         regs |-> reg_write(rf, REG_MOTOR_POSITION, pos),
         ret  |-> 0]

\* motor_update, case MOTOR_STATE_RUNNING
UpdateRunning(m, rf) ==
    LET sp  == RunningSpeed(m)
        pos == RunningPosition(m, sp)
    IN  [mc   |-> [m EXCEPT !.current_speed = sp, !.position = pos],
         \* (uint32_t)position is the encoded word of position itself
         regs |-> reg_write(reg_write(rf, REG_MOTOR_SPEED, sp),
                            REG_MOTOR_POSITION, pos),
         ret  |-> 0]

\* variant of UpdateStopping that reaches idle without clearing the running bit
UpdateStopping_KeepsRunningBit(m, rf) ==
    IF U32Lt(SPEED_RAMP_RATE, m.current_speed)
    THEN LET sp == U32Sub(m.current_speed, SPEED_RAMP_RATE)
         IN  [mc   |-> [m EXCEPT !.current_speed = sp],
              regs |-> reg_write(rf, REG_MOTOR_SPEED, sp),
              ret  |-> 0]
    ELSE [mc   |-> [m EXCEPT !.current_speed = 0, !.state = MOTOR_STATE_IDLE],
          regs |-> reg_write(rf, REG_MOTOR_SPEED, 0),
          ret  |-> 0]

\* variant of UpdateStopping that goes idle only on the tick after speed 0
\* is reached (threshold "current_speed > 0" instead of "> SPEED_RAMP_RATE")
UpdateStopping_IdleAfterZero(m, rf) ==
    IF U32Le(SPEED_RAMP_RATE, m.current_speed)
    THEN LET sp == U32Sub(m.current_speed, SPEED_RAMP_RATE)
         IN  [mc   |-> [m EXCEPT !.current_speed = sp],
              regs |-> reg_write(rf, REG_MOTOR_SPEED, sp),
              ret  |-> 0]
    ELSE [mc   |-> [m EXCEPT !.current_speed = 0, !.state = MOTOR_STATE_IDLE],
          regs |-> reg_write(
                       reg_clear_bits(rf, REG_MOTOR_STATUS, MOTOR_STATUS_RUNNING),
                       REG_MOTOR_SPEED, 0),
          ret  |-> 0]

\* motor_update, case MOTOR_STATE_STOPPING
UpdateStopping(m, rf) ==
    IF U32Lt(SPEED_RAMP_RATE, m.current_speed)
    THEN LET sp == U32Sub(m.current_speed, SPEED_RAMP_RATE)
         IN  [mc   |-> [m EXCEPT !.current_speed = sp],
              regs |-> reg_write(rf, REG_MOTOR_SPEED, sp),
              ret  |-> 0]
    ELSE [mc   |-> [m EXCEPT !.current_speed = 0, !.state = MOTOR_STATE_IDLE],
          regs |-> reg_write(
                       reg_clear_bits(rf, REG_MOTOR_STATUS, MOTOR_STATUS_RUNNING),
                       REG_MOTOR_SPEED, 0),
          ret  |-> 0]

\* variant of UpdateFaultCheck that tests the overheat bit before the stall bit
UpdateFaultCheck_OverheatFirst(m, status) ==
    IF m.state # MOTOR_STATE_FAULT
    THEN [m EXCEPT !.state = MOTOR_STATE_FAULT,
                   !.fault_code =
                       IF TestBits(status, MOTOR_STATUS_OVERHEAT)
                       THEN MOTOR_FAULT_OVERHEAT
                       ELSE IF TestBits(status, MOTOR_STATUS_STALL)
                       THEN MOTOR_FAULT_STALL
                       ELSE MOTOR_FAULT_OVERCURRENT]
    ELSE m

\* motor_update, the fault check on MOTOR_STATUS that precedes the state machine
UpdateFaultCheck(m, status) ==
    IF m.state # MOTOR_STATE_FAULT
    THEN [m EXCEPT !.state = MOTOR_STATE_FAULT,
                   !.fault_code =
                       IF TestBits(status, MOTOR_STATUS_STALL)
                       THEN MOTOR_FAULT_STALL
                       ELSE IF TestBits(status, MOTOR_STATUS_OVERHEAT)
                       THEN MOTOR_FAULT_OVERHEAT
                       ELSE MOTOR_FAULT_OVERCURRENT]
    ELSE m

motor_update(m, rf) ==
    LET status == reg_read(rf, REG_MOTOR_STATUS)
    IN  IF TestBits(status, StatusFaultMask)
        THEN [mc |-> UpdateFaultCheck(m, status), regs |-> rf, ret |-> 0]
        ELSE CASE m.state = MOTOR_STATE_IDLE     -> [mc |-> m, regs |-> rf, ret |-> 0]
               [] m.state = MOTOR_STATE_STARTING -> UpdateStarting(m, rf)
               [] m.state = MOTOR_STATE_RUNNING  -> UpdateRunning(m, rf)
               [] m.state = MOTOR_STATE_STOPPING -> UpdateStopping(m, rf)
               [] m.state = MOTOR_STATE_FAULT    -> [mc |-> m, regs |-> rf, ret |-> 0]
               [] m.state = MOTOR_STATE_RECOVERY ->
                      [mc   |-> [m EXCEPT !.state = MOTOR_STATE_IDLE],
                       regs |-> rf, ret |-> 0]

motor_is_running(m) ==
    m.state = MOTOR_STATE_RUNNING \/ m.state = MOTOR_STATE_STARTING

\* the status bit motor_inject_fault sets for a fault kind (0: none)
InjectBit(fault) ==
    CASE fault = MOTOR_FAULT_STALL       -> MOTOR_STATUS_STALL
      [] fault = MOTOR_FAULT_OVERHEAT    -> MOTOR_STATUS_OVERHEAT
      [] fault = MOTOR_FAULT_OVERCURRENT -> MOTOR_STATUS_FAULT
      [] OTHER                           -> 0

\* motor_inject_fault returns void; ret is 0 by convention
motor_inject_fault(m, rf, fault) ==
    [mc   |-> [m EXCEPT !.fault_code = fault, !.state = MOTOR_STATE_FAULT],
     regs |-> IF InjectBit(fault) # 0
              THEN reg_set_bits(rf, REG_MOTOR_STATUS, InjectBit(fault))
              ELSE rf,
     ret  |-> 0]

\* variant of motor_clear_fault that leaves MOTOR_STATUS as it is
motor_clear_fault_KeepsStatus(m, rf) ==
    IF m.state # MOTOR_STATE_FAULT THEN [mc |-> m, regs |-> rf, ret |-> 0]
    ELSE [mc   |-> [m EXCEPT !.fault_code = MOTOR_FAULT_NONE,
                             !.state = MOTOR_STATE_RECOVERY],
          regs |-> rf,
          ret  |-> 0]

motor_clear_fault(m, rf) ==
    IF m.state # MOTOR_STATE_FAULT THEN [mc |-> m, regs |-> rf, ret |-> 0]
    ELSE [mc   |-> [m EXCEPT !.fault_code = MOTOR_FAULT_NONE,
                             !.state = MOTOR_STATE_RECOVERY],
          regs |-> reg_write(rf, REG_MOTOR_STATUS, 0),
          ret  |-> 0]

(* ------------------------------------------------------------------ *)
(* Sensor array (sensor_array.h / sensor_array.c)                     *)
(* ------------------------------------------------------------------ *)

SENSOR_CTRL_ENABLE     == 1
SENSOR_CTRL_CONTINUOUS == 2
SENSOR_CTRL_TRIGGER    == 4

SENSOR_STATUS_READY    == 1
SENSOR_STATUS_OVERFLOW == 2
SENSOR_STATUS_ERROR    == 4

SENSOR_COUNT       == 4
SENSOR_BUFFER_SIZE == 16

SENSOR_TYPE_POSITION    == 0
SENSOR_TYPE_VELOCITY    == 1
SENSOR_TYPE_TEMPERATURE == 2
SENSOR_TYPE_CURRENT     == 3

SENSOR_STATE_DISABLED == 0
SENSOR_STATE_IDLE     == 1
SENSOR_STATE_SAMPLING == 2
SENSOR_STATE_ERROR    == 3

Channels == 0 .. (SENSOR_COUNT - 1)
Slots    == 0 .. (SENSOR_BUFFER_SIZE - 1)

\* sensor_array_init: the default configuration of channel i
SensorDefault(i) ==
    CASE i = 0 -> [type |-> SENSOR_TYPE_POSITION,
                   min_value |-> -10000, max_value |-> 10000]
      [] i = 1 -> [type |-> SENSOR_TYPE_VELOCITY,
                   min_value |-> 0, max_value |-> 10000]
      [] i = 2 -> [type |-> SENSOR_TYPE_TEMPERATURE,
                   min_value |-> -40, max_value |-> 125]
      [] i = 3 -> [type |-> SENSOR_TYPE_CURRENT,
                   min_value |-> 0, max_value |-> 5000]

sensor_array_init(rf) ==
    [sa   |-> [sensors |-> [i \in Channels |->
                              [type         |-> SensorDefault(i).type,
                               state        |-> SENSOR_STATE_DISABLED,
                               value        |-> 0,
                               min_value    |-> SensorDefault(i).min_value,
                               max_value    |-> SensorDefault(i).max_value,
                               sample_count |-> 0]],
               buffer          |-> [k \in Slots |-> 0],
               buffer_head     |-> 0,
               buffer_tail     |-> 0,
               continuous_mode |-> FALSE],
     regs |-> reg_write(reg_write(reg_write(rf,
                  REG_SENSOR_CTRL, 0), REG_SENSOR_DATA, 0), REG_SENSOR_STATUS, 0),
     ret  |-> 0]

sensor_array_enable(s, rf) ==
    [sa   |-> [s EXCEPT !.sensors =
                   [i \in Channels |->
                       [s.sensors[i] EXCEPT !.state = SENSOR_STATE_IDLE]]],
     regs |-> reg_set_bits(
                  reg_set_bits(rf, REG_SENSOR_CTRL, SENSOR_CTRL_ENABLE),
                  REG_SENSOR_STATUS, SENSOR_STATUS_READY),
     ret  |-> 0]

sensor_array_disable(s, rf) ==
    [sa   |-> [s EXCEPT !.sensors =
                   [i \in Channels |->
                       [s.sensors[i] EXCEPT !.state = SENSOR_STATE_DISABLED]]],
     regs |-> reg_clear_bits(
                  reg_clear_bits(rf, REG_SENSOR_CTRL, SENSOR_CTRL_ENABLE),
                  REG_SENSOR_STATUS, SENSOR_STATUS_READY),
     ret  |-> 0]

\* variant of sensor_array_trigger without the check of the enable bit
sensor_array_trigger_NoEnableCheck(s, rf) ==
    [sa   |-> [s EXCEPT !.sensors =
                   [i \in Channels |->
                       IF s.sensors[i].state = SENSOR_STATE_IDLE
                       THEN [s.sensors[i] EXCEPT
                                !.state = SENSOR_STATE_SAMPLING,
                                !.sample_count = U32Add(@, 1)]
                       ELSE s.sensors[i]]],
     regs |-> reg_set_bits(rf, REG_SENSOR_CTRL, SENSOR_CTRL_TRIGGER),
     ret  |-> 0]

sensor_array_trigger(s, rf) ==
    IF ~TestBits(reg_read(rf, REG_SENSOR_CTRL), SENSOR_CTRL_ENABLE)
    THEN [sa |-> s, regs |-> rf, ret |-> -2]
    ELSE [sa   |-> [s EXCEPT !.sensors =
                        [i \in Channels |->
                            IF s.sensors[i].state = SENSOR_STATE_IDLE
                            THEN [s.sensors[i] EXCEPT
                                     !.state = SENSOR_STATE_SAMPLING,
                                     !.sample_count = U32Add(@, 1)]
                            ELSE s.sensors[i]]],
          regs |-> reg_set_bits(rf, REG_SENSOR_CTRL, SENSOR_CTRL_TRIGGER),
          ret  |-> 0]

sensor_array_set_continuous(s, rf, enable) ==
    [sa   |-> [s EXCEPT !.continuous_mode = enable],
     regs |-> IF enable
              THEN reg_set_bits(rf, REG_SENSOR_CTRL, SENSOR_CTRL_CONTINUOUS)
              ELSE reg_clear_bits(rf, REG_SENSOR_CTRL, SENSOR_CTRL_CONTINUOUS),
     ret  |-> 0]

\* sensor_id is a uint8_t
sensor_read(s, sensor_id) ==
    IF sensor_id >= SENSOR_COUNT THEN 0 ELSE s.sensors[sensor_id].value

\* variant of sensor_buffer_push that reports a full ring without setting
\* the overflow bit
sensor_buffer_push_NoOverflowBit(s, rf, value) ==
    LET next == (s.buffer_head + 1) % SENSOR_BUFFER_SIZE
    IN  IF next = s.buffer_tail
        THEN [sa |-> s, regs |-> rf, ret |-> -2]
        ELSE [sa   |-> [s EXCEPT !.buffer[s.buffer_head] = value,
                                 !.buffer_head = next],
              regs |-> rf,
              ret  |-> 0]

sensor_buffer_push(s, rf, value) ==
    LET next == (s.buffer_head + 1) % SENSOR_BUFFER_SIZE
    IN  IF next = s.buffer_tail
        THEN [sa   |-> s,
              regs |-> reg_set_bits(rf, REG_SENSOR_STATUS, SENSOR_STATUS_OVERFLOW),
              ret  |-> -2]
        ELSE [sa   |-> [s EXCEPT !.buffer[s.buffer_head] = value,
                                 !.buffer_head = next],
              regs |-> rf,
              ret  |-> 0]

\* variant of sensor_buffer_pop that hands out the newest entry
sensor_buffer_pop_Newest(s, value) ==
    IF s.buffer_head = s.buffer_tail
    THEN [sa |-> s, ret |-> -2, value |-> value]
    ELSE [sa    |-> [s EXCEPT !.buffer_tail = (@ + 1) % SENSOR_BUFFER_SIZE],
          ret   |-> 0,
          value |-> s.buffer[(s.buffer_head + SENSOR_BUFFER_SIZE - 1)
                                 % SENSOR_BUFFER_SIZE]]

\* sensor_buffer_pop(sa, &v): value is what v holds before the call, the
\* result's value what it holds after it
sensor_buffer_pop(s, value) ==
    IF s.buffer_head = s.buffer_tail
    THEN [sa |-> s, ret |-> -2, value |-> value]
    ELSE [sa    |-> [s EXCEPT !.buffer_tail = (@ + 1) % SENSOR_BUFFER_SIZE],
          ret   |-> 0,
          value |-> s.buffer[s.buffer_tail]]

\* variant of sensor_buffer_count without the wrap-around branch
sensor_buffer_count_NoWrap(s) == s.buffer_head - s.buffer_tail

sensor_buffer_count(s) ==
    IF s.buffer_head >= s.buffer_tail
    THEN s.buffer_head - s.buffer_tail
    ELSE (SENSOR_BUFFER_SIZE - s.buffer_tail) + s.buffer_head

sensor_buffer_clear(s, rf) ==
    [sa   |-> [s EXCEPT !.buffer_head = 0, !.buffer_tail = 0],
     regs |-> reg_clear_bits(rf, REG_SENSOR_STATUS, SENSOR_STATUS_OVERFLOW),
     ret  |-> 0]

sensor_get_state(s, sensor_id) ==
    IF sensor_id >= SENSOR_COUNT THEN SENSOR_STATE_ERROR
    ELSE s.sensors[sensor_id].state

sensor_is_ready(rf) ==
    TestBits(reg_read(rf, REG_SENSOR_STATUS), SENSOR_STATUS_READY)

sensor_has_error(rf) ==
    TestBits(reg_read(rf, REG_SENSOR_STATUS), SENSOR_STATUS_ERROR)

\* variant of ClampValue without the upper limit
ClampValue_NoUpper(sensor) ==
    IF sensor.value < sensor.min_value THEN sensor.min_value ELSE sensor.value

\* sensor_array_update: the two clamping tests on one channel.  They run one
\* after the other; min_value <= max_value in every configuration.
ClampValue(sensor) ==
    LET low == IF sensor.value < sensor.min_value
               THEN sensor.min_value ELSE sensor.value
    IN  IF low > sensor.max_value THEN sensor.max_value ELSE low

\* sensor_array_update: the loop body for channel i.  c carries the array, the
\* registers and (history) the values the ring accepted during this call.
UpdateChannel(c, i) ==
    IF c.sa.sensors[i].state # SENSOR_STATE_SAMPLING THEN c
    ELSE LET v  == ClampValue(c.sa.sensors[i])
             s1 == [c.sa EXCEPT !.sensors[i].state = SENSOR_STATE_IDLE,
                                !.sensors[i].value = v]
         IN  IF s1.continuous_mode
             THEN LET r == sensor_buffer_push(s1, c.regs, v)
                  IN  [sa       |-> r.sa,
                       regs     |-> r.regs,
                       accepted |-> IF r.ret = 0 THEN Append(c.accepted, v)
                                    ELSE c.accepted]
             ELSE [c EXCEPT !.sa = s1]

\* F(a), with a evaluated once before F is applied to its value
Strict(F(_), a) == CHOOSE r \in {F(x) : x \in {a}} : TRUE

\* variant of sensor_array_update without the automatic trigger of the
\* continuous mode
sensor_array_update_NoRetrigger(s, rf) ==
    LET c0 == [sa |-> s, regs |-> rf, accepted |-> <<>>]
        c1 == Strict(LAMBDA c : UpdateChannel(c, 0), c0)
        c2 == Strict(LAMBDA c : UpdateChannel(c, 1), c1)
        c3 == Strict(LAMBDA c : UpdateChannel(c, 2), c2)
        c4 == Strict(LAMBDA c : UpdateChannel(c, 3), c3)
        rf1 == reg_clear_bits(c4.regs, REG_SENSOR_CTRL, SENSOR_CTRL_TRIGGER)
    IN  [sa |-> c4.sa, regs |-> rf1, ret |-> 0, accepted |-> c4.accepted]

sensor_array_update(s, rf) ==
    LET c0 == [sa |-> s, regs |-> rf, accepted |-> <<>>]
        c1 == Strict(LAMBDA c : UpdateChannel(c, 0), c0)
        c2 == Strict(LAMBDA c : UpdateChannel(c, 1), c1)
        c3 == Strict(LAMBDA c : UpdateChannel(c, 2), c2)
        c4 == Strict(LAMBDA c : UpdateChannel(c, 3), c3)
        rf1 == reg_clear_bits(c4.regs, REG_SENSOR_CTRL, SENSOR_CTRL_TRIGGER)
        t   == IF c4.sa.continuous_mode /\ sensor_is_ready(rf1)
               THEN sensor_array_trigger(c4.sa, rf1)
               ELSE [sa |-> c4.sa, regs |-> rf1, ret |-> 0]
    IN  [sa |-> t.sa, regs |-> t.regs, ret |-> 0, accepted |-> c4.accepted]

sensor_set_simulated_value(s, sensor_id, value) ==
    IF sensor_id >= SENSOR_COUNT THEN s
    ELSE [s EXCEPT !.sensors[sensor_id].value = value]

(* ------------------------------------------------------------------ *)
(* Interrupt controller (interrupt_handler.h / interrupt_handler.c)   *)
(* ------------------------------------------------------------------ *)

INT_MOTOR_FAULT  == 0
INT_MOTOR_STALL  == 1
INT_SENSOR_READY == 2
INT_SENSOR_ERROR == 3
INT_TIMER        == 4
INT_COUNT        == 5

Sources == 0 .. (INT_COUNT - 1)

\* 1 << n, for 0 <= n <= 30
RECURSIVE Shl1(_)
Shl1(n) == IF n = 0 THEN 1 ELSE 2 * Shl1(n - 1)

\* the mask with the bits of the sources in S
RECURSIVE MaskOf(_)
MaskOf(S) ==
    IF S = {} THEN 0
    ELSE LET s == CHOOSE x \in S : TRUE
         IN  Shl1(s) + MaskOf(S \ {s})

\* the sources whose bits are set in a mask
BitsOf(mask) == {i \in Sources : TestBits(mask, Shl1(i))}

Pending(c, s) == TestBits(c.pending_irqs, Shl1(s))
Enabled(c, s) == TestBits(c.enabled_irqs, Shl1(s))

\* The handler functions.  "NULL" is the null pointer.  "callback" stands for
\* a handler that leaves the controller and the process alone (the two
\* handlers of main.c print).  "counting" is test_irq_callback, which adds
\* one to irq_callback_count.  "retrigger" is a handler that calls
\* irq_trigger on the source its context names.
NoHandler == "NULL"
Handlers == {"callback", "counting", "retrigger"}

\* irq_init (memset zeroes the handler table)
irq_init(rf) ==
    [ic   |-> [handlers        |-> [i \in Sources |-> NoHandler],
               handler_contexts |-> [i \in Sources |-> 0],
               pending_irqs    |-> 0,
               enabled_irqs    |-> 0,
               signal_received |-> 0],
     regs |-> reg_write(reg_write(rf, REG_IRQ_STATUS, 0), REG_IRQ_ENABLE, 0),
     ret  |-> 0]

irq_register_handler(c, rf, source, handler, context) ==
    IF source >= INT_COUNT THEN [ic |-> c, regs |-> rf, ret |-> -1]
    ELSE [ic   |-> [c EXCEPT !.handlers[source] = handler,
                             !.handler_contexts[source] = context],
          regs |-> rf,
          ret  |-> 0]

irq_unregister_handler(c, rf, source) ==
    IF source >= INT_COUNT THEN [ic |-> c, regs |-> rf, ret |-> -1]
    ELSE [ic   |-> [c EXCEPT !.handlers[source] = NoHandler,
                             !.handler_contexts[source] = 0],
          regs |-> rf,
          ret  |-> 0]

irq_enable(c, rf, source) ==
    IF source >= INT_COUNT THEN [ic |-> c, regs |-> rf, ret |-> -1]
    ELSE [ic   |-> [c EXCEPT !.enabled_irqs = BitOr(@, Shl1(source))],
          regs |-> reg_set_bits(rf, REG_IRQ_ENABLE, Shl1(source)),
          ret  |-> 0]

irq_disable(c, rf, source) ==
    IF source >= INT_COUNT THEN [ic |-> c, regs |-> rf, ret |-> -1]
    ELSE [ic   |-> [c EXCEPT !.enabled_irqs = BitAnd(@, BitNot(Shl1(source)))],
          regs |-> reg_clear_bits(rf, REG_IRQ_ENABLE, Shl1(source)),
          ret  |-> 0]

irq_enable_all(c, rf) ==
    [ic   |-> [c EXCEPT !.enabled_irqs = Shl1(INT_COUNT) - 1],
     regs |-> reg_write(rf, REG_IRQ_ENABLE, Shl1(INT_COUNT) - 1),
     ret  |-> 0]

irq_disable_all(c, rf) ==
    [ic   |-> [c EXCEPT !.enabled_irqs = 0],
     regs |-> reg_write(rf, REG_IRQ_ENABLE, 0),
     ret  |-> 0]

\* irq_cleanup: irq_disable_all; the global pointer and the dispositions of
\* SIGUSR1 / SIGUSR2 are reset by the caller's step
irq_cleanup(c, rf) == irq_disable_all(c, rf)

\* variant of irq_trigger without the gate on the enabled mask
irq_trigger_NoGate(c, rf, source) ==
    IF source >= INT_COUNT THEN [ic |-> c, regs |-> rf, ret |-> 0]
    ELSE [ic   |-> [c EXCEPT !.pending_irqs = BitOr(@, Shl1(source))],
          regs |-> reg_set_bits(rf, REG_IRQ_STATUS, Shl1(source)),
          ret  |-> 0]

\* irq_trigger returns void; ret is 0 by convention
irq_trigger(c, rf, source) ==
    IF source >= INT_COUNT THEN [ic |-> c, regs |-> rf, ret |-> 0]
    ELSE IF TestBits(c.enabled_irqs, Shl1(source))
    THEN [ic   |-> [c EXCEPT !.pending_irqs = BitOr(@, Shl1(source))],
          regs |-> reg_set_bits(rf, REG_IRQ_STATUS, Shl1(source)),
          ret  |-> 0]
    ELSE [ic |-> c, regs |-> rf, ret |-> 0]

\* variant of DrainLatch that triggers the timer and leaves the latch set
DrainLatch_KeepsLatch(c, rf) ==
    IF c.signal_received # 0
    THEN irq_trigger(c, rf, INT_TIMER)
    ELSE [ic |-> c, regs |-> rf, ret |-> 0]

\* irq_process_pending, the latch: a signal seen since the last drain
\* triggers INT_TIMER
DrainLatch(c, rf) ==
    IF c.signal_received # 0
    THEN irq_trigger([c EXCEPT !.signal_received = 0], rf, INT_TIMER)
    ELSE [ic |-> c, regs |-> rf, ret |-> 0]

\* the call ic->handlers[i](i, ic->handler_contexts[i]); d holds the
\* controller, the registers, the calls made so far and their number
CallHandler(d, i) ==
    LET ctx == d.ic.handler_contexts[i]
        t   == IF d.ic.handlers[i] = "retrigger"
               THEN irq_trigger(d.ic, d.regs, ctx)
               ELSE [ic |-> d.ic, regs |-> d.regs, ret |-> 0]
    IN  [ic        |-> t.ic,
         regs      |-> t.regs,
         log       |-> Append(d.log, [source |-> i, context |-> ctx]),
         processed |-> d.processed + 1]

\* variant of DrainSource that counts a pending source without a handler
DrainSource_CountsUnhandled(d, i) ==
    IF TestBits(d.ic.pending_irqs, Shl1(i))
    THEN IF d.ic.handlers[i] # NoHandler
         THEN CallHandler(d, i)
         ELSE [d EXCEPT !.processed = @ + 1]
    ELSE d

\* variant of DrainSource that calls every registered handler, pending or not
DrainSource_IgnoresPending(d, i) ==
    IF d.ic.handlers[i] # NoHandler THEN CallHandler(d, i) ELSE d

\* irq_process_pending, the body of the for loop at index i
DrainSource(d, i) ==
    IF TestBits(d.ic.pending_irqs, Shl1(i)) /\ d.ic.handlers[i] # NoHandler
    THEN CallHandler(d, i)
    ELSE d

\* irq_process_pending, the for loop from index i on
RECURSIVE DrainFrom(_, _)
DrainFrom(d, i) ==
    IF i >= INT_COUNT THEN d
    ELSE DrainFrom(DrainSource(d, i), i + 1)

\* variant of DrainClear that clears only the bits of the sources that have
\* a handler
DrainClear_HandledOnly(d) ==
    LET left == BitAnd(d.ic.pending_irqs,
                       MaskOf({i \in Sources : d.ic.handlers[i] = NoHandler}))
    IN  [ic   |-> [d.ic EXCEPT !.pending_irqs = left],
         regs |-> reg_write(d.regs, REG_IRQ_STATUS, left),
         ret  |-> d.processed,
         log  |-> d.log]

\* irq_process_pending, after the loop: clear the mask and IRQ_STATUS
DrainClear(d) ==
    [ic   |-> [d.ic EXCEPT !.pending_irqs = 0],
     regs |-> reg_write(d.regs, REG_IRQ_STATUS, 0),
     ret  |-> d.processed,
     log  |-> d.log]

irq_process_pending(c, rf) ==
    LET l == DrainLatch(c, rf)
    IN  DrainClear(DrainFrom([ic |-> l.ic, regs |-> l.regs, log |-> <<>>,
                              processed |-> 0], 0))

irq_is_pending(c, source) ==
    IF source >= INT_COUNT THEN FALSE
    ELSE TestBits(c.pending_irqs, Shl1(source))

irq_get_pending_mask(c) == c.pending_irqs

\* irq_clear returns void; ret is 0 by convention
irq_clear(c, rf, source) ==
    IF source >= INT_COUNT THEN [ic |-> c, regs |-> rf, ret |-> 0]
    ELSE [ic   |-> [c EXCEPT !.pending_irqs = BitAnd(@, BitNot(Shl1(source)))],
          regs |-> reg_clear_bits(rf, REG_IRQ_STATUS, Shl1(source)),
          ret  |-> 0]

\* irq_signal_handler, run with g_irq_controller pointing at the controller
irq_signal_handler(c, signum) ==
    [c EXCEPT !.signal_received = 1,
              !.pending_irqs =
                  IF signum = "SIGUSR1" THEN BitOr(@, Shl1(INT_MOTOR_FAULT))
                  ELSE IF signum = "SIGUSR2" THEN BitOr(@, Shl1(INT_SENSOR_READY))
                  ELSE @]

(* ------------------------------------------------------------------ *)
(* Shared region (shared_mem.h / shared_mem.c)                        *)
(* ------------------------------------------------------------------ *)

CMD_NONE            == 0
CMD_MOTOR_START     == 1
CMD_MOTOR_STOP      == 2
CMD_MOTOR_SET_SPEED == 3
CMD_SENSOR_READ     == 4
CMD_GET_STATUS      == 5
CMD_RESET           == 6

RESP_OK          == 0
RESP_ERROR       == 1
RESP_BUSY        == 2
RESP_INVALID_CMD == 3

\* int32_t resp_data[8] = {0}
NoData == [k \in 0 .. 7 |-> 0]

\* shm_create: the new object is zero-filled, then the four flags are set
shm_create ==
    [created            |-> TRUE,
     cmd                |-> CMD_NONE,
     cmd_param1         |-> 0,
     cmd_param2         |-> 0,
     cmd_pending        |-> FALSE,
     resp_status        |-> RESP_OK,
     resp_data          |-> NoData,
     resp_ready_flag    |-> FALSE,
     motor_state        |-> 0,
     motor_speed        |-> 0,
     motor_position     |-> 0,
     sensor_values      |-> [i \in Channels |-> 0],
     fault_code         |-> 0,
     shutdown_requested |-> FALSE]

\* shm_destroy unmaps and unlinks the region
shm_destroy(h) == [h EXCEPT !.created = FALSE]

\* shm_send_command waits on resp_ready while a command is pending
CanSendCommand(h) == ~h.cmd_pending

shm_send_command(h, cmd, param1, param2) ==
    [h EXCEPT !.cmd = cmd, !.cmd_param1 = param1, !.cmd_param2 = param2,
              !.cmd_pending = TRUE, !.resp_ready_flag = FALSE]

\* shm_wait_response waits on resp_ready until a response is there
CanWaitResponse(h) == h.resp_ready_flag

shm_wait_response(h) ==
    [shm    |-> [h EXCEPT !.resp_ready_flag = FALSE],
     status |-> h.resp_status,
     data   |-> h.resp_data,
     ret    |-> 0]

\* shm_get_command waits on cmd_ready until a command is pending or
\* shutdown is requested
CanGetCommand(h) == h.cmd_pending \/ h.shutdown_requested

\* shm_get_command once its wait is over; it leaves cmd_pending as it is
shm_get_command(h) ==
    IF h.shutdown_requested
    THEN [ret |-> -2, cmd |-> CMD_NONE, param1 |-> 0, param2 |-> 0]
    ELSE [ret |-> 0, cmd |-> h.cmd, param1 |-> h.cmd_param1,
          param2 |-> h.cmd_param2]

shm_send_response(h, status, data) ==
    [h EXCEPT !.resp_status = status, !.resp_data = data,
              !.cmd_pending = FALSE, !.resp_ready_flag = TRUE]

shm_update_status(h, motor_state, motor_speed, motor_position, sensor_values, fault_code) ==
    [h EXCEPT !.motor_state = motor_state, !.motor_speed = motor_speed,
              !.motor_position = motor_position,
              !.sensor_values = sensor_values, !.fault_code = fault_code]

shm_is_shutdown_requested(h) == h.shutdown_requested

shm_request_shutdown(h) == [h EXCEPT !.shutdown_requested = TRUE]

(* ------------------------------------------------------------------ *)
(* The motor as a state machine: one action per entry point           *)
(* ------------------------------------------------------------------ *)

CtrlReg     == reg_read(regs, REG_MOTOR_CTRL)
StatusReg   == reg_read(regs, REG_MOTOR_STATUS)
SpeedReg    == reg_read(regs, REG_MOTOR_SPEED)
PositionReg == reg_read(regs, REG_MOTOR_POSITION)

NoFaultBits == ~TestBits(StatusReg, StatusFaultMask)

\* a speed in 0 .. MAX_SPEED on the unsigned reading
InRange(speed) == U32Le(speed, MAX_SPEED)

\* the smallest wrapped speed from which a tick is still explored
WrapFloor == -(MaxWrapTicks * SPEED_RAMP_RATE)

\* Which update ticks the model explores.  position is an unbounded counter:
\* a tick that changes it is explored when it leaves position inside the
\* window, or when it is the tick from position 0 that wraps current_speed.
\* A wrapped current_speed takes millions of ticks to come down: ticks are
\* explored from wrapped speeds down to WrapFloor.
TickExplored ==
    LET r == motor_update(mc, regs)
    IN  /\ \/ r.mc.position = mc.position
           \/ Abs(r.mc.position) <= MaxPos
           \/ mc.position = 0 /\ ~InRange(r.mc.current_speed)
        /\ InRange(mc.current_speed) \/ U32Le(WrapFloor, mc.current_speed)

\* the register file once main has constructed the four components
BootRegs ==
    irq_init(sensor_array_init(motor_init(reg_init).regs).regs).regs

\* the call's results become the next state
Apply(r, op, arg) ==
    /\ mc' = r.mc
    /\ regs' = r.regs
    /\ ret' = r.ret
    /\ last_op' = op
    /\ last_arg' = arg
    /\ env' = env
    /\ UNCHANGED <<sa, ic, out, pushed, log, owed, drv, shm, cli>>

Free == phase' = "free" /\ ticks' = 0

Init ==
    /\ env \in Envs
    /\ mc = motor_init(reg_init).mc
    /\ regs = BootRegs
    /\ sa = sensor_array_init(reg_init).sa
    /\ ic = irq_init(reg_init).ic
    /\ last_op = "init"
    /\ last_arg = 0
    /\ ret = 0
    /\ out = 0
    /\ pushed = <<>>
    /\ phase = "free"
    /\ ticks = 0
    /\ NoLoop

MotorStart ==
    \E speed \in env.speeds, dir \in Directions :
        /\ Apply(motor_start(mc, regs, speed, dir), "start", 0)
        /\ IF env.track /\ mc.state = MOTOR_STATE_IDLE /\ NoFaultBits /\ InRange(speed)
           THEN phase' = "ramp" /\ ticks' = 0
           ELSE Free

MotorStop ==
    /\ Apply(motor_stop(mc, regs), "stop", 0)
    /\ IF env.track /\ mc.state = MOTOR_STATE_RUNNING /\ NoFaultBits
          /\ InRange(mc.current_speed)
       THEN phase' = "drain" /\ ticks' = 0
       ELSE Free

MotorBrake == Apply(motor_brake(mc, regs), "brake", 0) /\ Free

MotorSetSpeed ==
    \E speed \in env.speeds :
        Apply(motor_set_speed(mc, regs, speed), "set_speed", 0) /\ Free

MotorReset == Apply(motor_reset(mc, regs), "reset", 0) /\ Free

MotorUpdate ==
    /\ TickExplored
    /\ Apply(motor_update(mc, regs), "update", 0)
    /\ phase' = phase
    /\ ticks' = IF phase = "free" THEN 0 ELSE Min(ticks + 1, TickCap)

MotorInjectFault ==
    \E fault \in env.faults :
        Apply(motor_inject_fault(mc, regs, fault), "inject_fault", fault) /\ Free

MotorClearFault == Apply(motor_clear_fault(mc, regs), "clear_fault", 0) /\ Free

Next ==
    \/ MotorStart
    \/ MotorStop
    \/ MotorBrake
    \/ MotorSetSpeed
    \/ MotorReset
    \/ MotorUpdate
    \/ MotorInjectFault
    \/ MotorClearFault

Spec == Init /\ [][Next]_vars

(* ------------------------------------------------------------------ *)
(* The register file on its own: specification SpecReg                *)
(* ------------------------------------------------------------------ *)

\* the words written and the masks set or cleared: nothing, bits 0 and 2,
\* bit 31 alone (0x80000000) and every bit (0xFFFFFFFF)
RegValues == {0, 5, MinInt32, -1}

\* the offsets past the file: the first one, 0x80000000 and 0xFFFFFFFF
BadOffsets == {REGISTER_FILE_SIZE, MinInt32, -1}

\* a run works on one aligned in-range offset and on the offsets past the file
RegEnvs ==
    { [name |-> "reg", offsets |-> {4 * w} \cup BadOffsets, values |-> RegValues]
        : w \in RegWords }

InFile(offset) == U32Lt(offset, REGISTER_FILE_SIZE)

\* What is recorded of a register call: its offset, its value or mask, the
\* word at the offset before the call, and in pair what the call before it
\* was when the two belong together: <<"written", v>> for a reg_read that
\* follows reg_write(offset, v), <<"cleared", w>> for a reg_set_bits that
\* follows reg_clear_bits of the same offset and mask on a word w.
RegCall(offset, value, pair) ==
    [offset |-> offset, value |-> value,
     before |-> reg_read(regs, offset), pair |-> pair]

RegFrame ==
    UNCHANGED <<env, mc, sa, ic, out, pushed, phase, ticks, log, owed, drv,
                shm, cli>>

InitReg ==
    /\ env \in RegEnvs
    /\ regs = reg_init
    /\ mc = motor_init(reg_init).mc
    /\ sa = sensor_array_init(reg_init).sa
    /\ ic = irq_init(reg_init).ic
    /\ last_op = "reg_init"
    /\ last_arg = [offset |-> 0, value |-> 0, before |-> 0, pair |-> <<>>]
    /\ ret = 0
    /\ out = 0
    /\ pushed = <<>>
    /\ phase = "free"
    /\ ticks = 0
    /\ NoLoop

RegInit ==
    /\ regs' = reg_init
    /\ last_op' = "reg_init"
    /\ last_arg' = [offset |-> 0, value |-> 0, before |-> 0, pair |-> <<>>]
    /\ ret' = 0
    /\ RegFrame

RegRead ==
    \E offset \in env.offsets :
        /\ regs' = regs
        /\ ret' = reg_read(regs, offset)
        /\ last_op' = "reg_read"
        /\ last_arg' = RegCall(offset, 0,
                           IF last_op = "reg_write" /\ last_arg.offset = offset
                           THEN <<"written", last_arg.value>> ELSE <<>>)
        /\ RegFrame

RegWrite ==
    \E offset \in env.offsets, value \in env.values :
        /\ regs' = reg_write(regs, offset, value)
        /\ ret' = 0
        /\ last_op' = "reg_write"
        /\ last_arg' = RegCall(offset, value, <<>>)
        /\ RegFrame

RegSetBits ==
    \E offset \in env.offsets, bits \in env.values :
        /\ regs' = reg_set_bits(regs, offset, bits)
        /\ ret' = 0
        /\ last_op' = "reg_set_bits"
        /\ last_arg' = RegCall(offset, bits,
                           IF /\ last_op = "reg_clear_bits"
                              /\ last_arg.offset = offset
                              /\ last_arg.value = bits
                           THEN <<"cleared", last_arg.before>> ELSE <<>>)
        /\ RegFrame

RegClearBits ==
    \E offset \in env.offsets, bits \in env.values :
        /\ regs' = reg_clear_bits(regs, offset, bits)
        /\ ret' = 0
        /\ last_op' = "reg_clear_bits"
        /\ last_arg' = RegCall(offset, bits, <<>>)
        /\ RegFrame

NextReg ==
    \/ RegInit
    \/ RegRead
    \/ RegWrite
    \/ RegSetBits
    \/ RegClearBits

SpecReg == InitReg /\ [][NextReg]_vars

(* ------------------------------------------------------------------ *)
(* The sensor array: specification SpecSensor                         *)
(* ------------------------------------------------------------------ *)

\* the values set on channel i: both limits of its range, their outer
\* neighbours and the two ends of int32_t
ClampInputs(i) ==
    {SensorDefault(i).min_value - 1, SensorDefault(i).min_value,
     SensorDefault(i).max_value, SensorDefault(i).max_value + 1,
     MinInt32, MaxInt32}

\* The input alphabets of a sensor run.  The ring has sixteen slots, so the
\* calls that fill it with differing values are kept apart from the calls
\* that move its indices about:
\*   "fifo":  push and pop only; the samples pushed are numbered (see
\*            NextSample), so that all buffered entries differ;
\*   "ring":  every call that touches the ring or the channel states, all
\*            samples 0;
\*   "clamp": one per channel i: the channel calls, values set on channel i
\*            (and on the id past the last channel), no direct ring calls.
SensorEnvs ==
    { [name |-> "fifo", ops |-> {"push", "pop"},
       ids |-> {}, values |-> {}],
      [name |-> "ring",
       ops |-> {"enable", "disable", "trigger", "set_continuous", "update",
                "push", "pop", "clear"},
       ids |-> {}, values |-> {0}] }
    \cup
    { [name |-> "clamp",
       ops |-> {"enable", "disable", "trigger", "set_continuous", "update",
                "set_value", "read"},
       ids |-> {i, SENSOR_COUNT}, values |-> ClampInputs(i)]
        : i \in Channels }

\* the sample pushed last (it stays in its slot when it is popped)
LastStored ==
    sa.buffer[(sa.buffer_head + SENSOR_BUFFER_SIZE - 1) % SENSOR_BUFFER_SIZE]

\* in a "fifo" run each sample is the one before it plus 1, modulo SampleValues
NextSample == (LastStored + 1) % SampleValues

\* sample_count is a counter without bound: trigger and update are explored
\* while they leave every sample_count <= MaxSamples
SamplesExplored(s) ==
    \A i \in Channels : s.sensors[i].sample_count <= MaxSamples

\* What is recorded of a sensor call: the channel id and the value passed,
\* and how far the sequence set_simulated_value(id, value); trigger; update
\* has come: "set", "triggered" (trigger returned 0), "updated", else "none".
SensorCall(id, value, stage) == [id |-> id, value |-> value, stage |-> stage]

NoCall == SensorCall(0, 0, "none")

ApplySensor(r, op, arg) ==
    /\ sa' = r.sa
    /\ regs' = r.regs
    /\ ret' = r.ret
    /\ last_op' = op
    /\ last_arg' = arg
    /\ UNCHANGED <<env, mc, ic, phase, ticks, log, owed, drv, shm, cli>>

InitSensor ==
    /\ env \in SensorEnvs
    /\ regs = BootRegs
    /\ mc = motor_init(reg_init).mc
    /\ sa = sensor_array_init(reg_init).sa
    /\ ic = irq_init(reg_init).ic
    /\ last_op = "init"
    /\ last_arg = NoCall
    /\ ret = 0
    /\ out = 0
    /\ pushed = <<>>
    /\ phase = "free"
    /\ ticks = 0
    /\ NoLoop

SensorEnable ==
    /\ "enable" \in env.ops
    /\ ApplySensor(sensor_array_enable(sa, regs), "enable", NoCall)
    /\ UNCHANGED <<out, pushed>>

SensorDisable ==
    /\ "disable" \in env.ops
    /\ ApplySensor(sensor_array_disable(sa, regs), "disable", NoCall)
    /\ UNCHANGED <<out, pushed>>

SensorTrigger ==
    /\ "trigger" \in env.ops
    /\ LET r == sensor_array_trigger(sa, regs)
       IN  /\ SamplesExplored(r.sa)
           /\ ApplySensor(r, "trigger",
                  IF last_arg.stage = "set" /\ r.ret = 0
                  THEN [last_arg EXCEPT !.stage = "triggered"]
                  ELSE NoCall)
    /\ UNCHANGED <<out, pushed>>

SensorSetContinuous ==
    /\ "set_continuous" \in env.ops
    /\ \E enable \in BOOLEAN :
           ApplySensor(sensor_array_set_continuous(sa, regs, enable),
                       "set_continuous", NoCall)
    /\ UNCHANGED <<out, pushed>>

SensorRead ==
    /\ "read" \in env.ops
    /\ \E id \in env.ids :
           ApplySensor([sa |-> sa, regs |-> regs, ret |-> sensor_read(sa, id)],
                       "read", SensorCall(id, 0, "none"))
    /\ UNCHANGED <<out, pushed>>

SensorSetSimulatedValue ==
    /\ "set_value" \in env.ops
    /\ \E id \in env.ids, value \in env.values :
           ApplySensor([sa   |-> sensor_set_simulated_value(sa, id, value),
                        regs |-> regs, ret |-> 0],
                       "set_value", SensorCall(id, value, "set"))
    /\ UNCHANGED <<out, pushed>>

SensorBufferPush ==
    /\ "push" \in env.ops
    /\ \E value \in IF env.name = "fifo" THEN {NextSample} ELSE env.values :
           LET r == sensor_buffer_push(sa, regs, value)
           IN  /\ ApplySensor(r, "push", SensorCall(0, value, "none"))
               /\ pushed' = IF r.ret = 0 THEN Append(pushed, value) ELSE pushed
    /\ out' = out

SensorBufferPop ==
    /\ "pop" \in env.ops
    /\ LET r == sensor_buffer_pop(sa, out)
       IN  /\ ApplySensor([sa |-> r.sa, regs |-> regs, ret |-> r.ret],
                          "pop", NoCall)
           /\ out' = r.value
           /\ pushed' = IF r.ret = 0 /\ pushed # <<>> THEN Tail(pushed)
                        ELSE pushed

SensorBufferClear ==
    /\ "clear" \in env.ops
    /\ ApplySensor(sensor_buffer_clear(sa, regs), "clear", NoCall)
    /\ pushed' = <<>>
    /\ out' = out

SensorUpdate ==
    /\ "update" \in env.ops
    /\ LET r == sensor_array_update(sa, regs)
       IN  /\ SamplesExplored(r.sa)
           /\ ApplySensor(r, "update",
                  IF last_arg.stage = "triggered"
                  THEN [last_arg EXCEPT !.stage = "updated"]
                  ELSE NoCall)
           /\ pushed' = pushed \o r.accepted
    /\ out' = out

NextSensor ==
    \/ SensorEnable
    \/ SensorDisable
    \/ SensorTrigger
    \/ SensorSetContinuous
    \/ SensorRead
    \/ SensorSetSimulatedValue
    \/ SensorBufferPush
    \/ SensorBufferPop
    \/ SensorBufferClear
    \/ SensorUpdate

SpecSensor == InitSensor /\ [][NextSensor]_vars

(* ------------------------------------------------------------------ *)
(* The interrupt controller: specification SpecIrq                    *)
(* ------------------------------------------------------------------ *)

\* the sources passed to the calls: the five sources and INT_COUNT itself,
\* which every call rejects
SourceInputs == Sources \cup {INT_COUNT}

\* the host signals bridged to sources
Signals == {"SIGUSR1", "SIGUSR2"}

\* the calls of the interrupt controller
IrqOps ==
    {"irq_register_handler", "irq_unregister_handler", "irq_enable",
     "irq_disable", "irq_enable_all", "irq_disable_all", "irq_trigger",
     "irq_clear", "irq_process_pending", "irq_setup_signal_handler",
     "irq_signal_handler", "irq_cleanup"}

\* The calls of a run.  "gate" makes every call on the masks with every
\* source and with INT_COUNT, which every call rejects, and registers no
\* handler on a source.  "dispatch" registers callbacks with two contexts on
\* three sources, enables, triggers and drains them, with SIGUSR1 delivered
\* between calls.  "reentrant" registers handlers that trigger one of two
\* sources.  "count" registers the counting handler on the motor-fault source
\* and triggers, clears and drains it and the timer.  "bridge" installs and
\* removes the signal bridge around drains of the timer.
IrqEnvs ==
    { [name |-> "gate", ops |-> IrqOps \ {"irq_cleanup"},
       sources |-> SourceInputs, hsources |-> {INT_COUNT},
       handlers |-> {<<"callback", 1>>}, signals |-> Signals],
      [name |-> "dispatch",
       ops |-> {"irq_register_handler", "irq_unregister_handler",
                "irq_enable", "irq_trigger", "irq_process_pending",
                "irq_setup_signal_handler", "irq_signal_handler"},
       sources |-> {INT_MOTOR_FAULT, INT_SENSOR_READY, INT_TIMER},
       hsources |-> {INT_MOTOR_FAULT, INT_SENSOR_READY, INT_TIMER},
       handlers |-> {<<"callback", 1>>, <<"callback", 2>>},
       signals |-> {"SIGUSR1"}],
      [name |-> "reentrant",
       ops |-> {"irq_register_handler", "irq_enable", "irq_trigger",
                "irq_process_pending"},
       sources |-> {INT_MOTOR_FAULT, INT_SENSOR_READY, INT_TIMER},
       hsources |-> {INT_MOTOR_FAULT, INT_SENSOR_READY, INT_TIMER},
       handlers |-> {<<"retrigger", INT_MOTOR_FAULT>>,
                     <<"retrigger", INT_TIMER>>},
       signals |-> {}],
      [name |-> "count",
       ops |-> {"irq_register_handler", "irq_unregister_handler",
                "irq_enable", "irq_disable", "irq_trigger", "irq_clear",
                "irq_process_pending"},
       sources |-> {INT_MOTOR_FAULT, INT_TIMER},
       hsources |-> {INT_MOTOR_FAULT},
       handlers |-> {<<"counting", 0>>},
       signals |-> {}],
      [name |-> "bridge",
       ops |-> {"irq_register_handler", "irq_unregister_handler",
                "irq_enable", "irq_disable", "irq_trigger",
                "irq_process_pending", "irq_setup_signal_handler",
                "irq_signal_handler", "irq_cleanup"},
       sources |-> {INT_TIMER},
       hsources |-> {INT_TIMER},
       handlers |-> {<<"callback", 1>>},
       signals |-> Signals] }

\* the calls of test_irq_callback among the handler calls l of a drain
\* entered with controller c
CountingCalls(c, l) ==
    Cardinality({k \in DOMAIN l : c.handlers[l[k].source] = "counting"})

\* the call's results become the next state; log keeps the handler calls of
\* irq_process_pending and is empty after every other call; a drain adds its
\* calls of test_irq_callback to irq_callback_count
ApplyIrq(r, op, arg) ==
    /\ op \in env.ops
    /\ ic' = r.ic
    /\ regs' = r.regs
    /\ ret' = r.ret
    /\ last_op' = op
    /\ last_arg' = arg
    /\ log' = IF op = "irq_process_pending" THEN r.log ELSE <<>>
    /\ drv' = CASE op = "irq_setup_signal_handler" ->
                     [drv EXCEPT !.bridge = TRUE]
                [] op = "irq_cleanup" ->
                     [drv EXCEPT !.bridge = FALSE, !.g_irq_controller = FALSE]
                [] op = "irq_process_pending" ->
                     [drv EXCEPT !.irq_callback_count =
                                     @ + CountingCalls(ic, r.log)]
                [] OTHER -> drv
    /\ UNCHANGED <<env, mc, sa, out, pushed, phase, ticks, owed, shm, cli>>

\* the process of the interrupt tests: no driver loop; bridge tells whether
\* sigaction has made irq_signal_handler the disposition of SIGUSR1 and
\* SIGUSR2, g_irq_controller whether the global pointer is set (irq_init
\* has set it)
TestProcess ==
    [pc |-> "none", bridge |-> FALSE, g_irq_controller |-> TRUE,
     irq_callback_count |-> 0]

InitIrq ==
    /\ env \in IrqEnvs
    /\ regs = BootRegs
    /\ mc = motor_init(reg_init).mc
    /\ sa = sensor_array_init(reg_init).sa
    /\ ic = irq_init(reg_init).ic
    /\ last_op = "init"
    /\ last_arg = 0
    /\ ret = 0
    /\ out = 0
    /\ pushed = <<>>
    /\ phase = "free"
    /\ ticks = 0
    /\ log = <<>>
    /\ owed = {}
    /\ drv = TestProcess
    /\ shm = NoRegion
    /\ cli = NoClient

IrqRegisterHandler ==
    \E source \in env.hsources, h \in env.handlers :
        ApplyIrq(irq_register_handler(ic, regs, source, h[1], h[2]),
                 "irq_register_handler", source)

IrqUnregisterHandler ==
    \E source \in env.hsources :
        ApplyIrq(irq_unregister_handler(ic, regs, source),
                 "irq_unregister_handler", source)

\* last_arg is the signal latch the call found
IrqProcessPending ==
    /\ drv.irq_callback_count < MaxCalls
    /\ ApplyIrq(irq_process_pending(ic, regs), "irq_process_pending",
                ic.signal_received)

IrqEnable ==
    \E source \in env.sources :
        ApplyIrq(irq_enable(ic, regs, source), "irq_enable", source)

IrqDisable ==
    \E source \in env.sources :
        ApplyIrq(irq_disable(ic, regs, source), "irq_disable", source)

IrqEnableAll == ApplyIrq(irq_enable_all(ic, regs), "irq_enable_all", 0)

IrqDisableAll == ApplyIrq(irq_disable_all(ic, regs), "irq_disable_all", 0)

IrqTrigger ==
    \E source \in env.sources :
        ApplyIrq(irq_trigger(ic, regs, source), "irq_trigger", source)

IrqClear ==
    \E source \in env.sources :
        ApplyIrq(irq_clear(ic, regs, source), "irq_clear", source)

\* irq_setup_signal_handler (sigaction succeeds)
IrqSetupSignalHandler ==
    ApplyIrq([ic |-> ic, regs |-> regs, ret |-> 0],
             "irq_setup_signal_handler", 0)

\* irq_cleanup; signal(.., SIG_DFL) removes the bridge
IrqCleanup == ApplyIrq(irq_cleanup(ic, regs), "irq_cleanup", 0)

\* a bridged signal delivered between two calls, once the bridge is
\* installed; irq_signal_handler returns at once when g_irq_controller is
\* NULL; last_arg is the source the handler maps it to
IrqSignal ==
    \E signum \in env.signals :
        /\ drv.bridge
        /\ ApplyIrq([ic   |-> IF drv.g_irq_controller
                              THEN irq_signal_handler(ic, signum) ELSE ic,
                     regs |-> regs, ret |-> 0],
                    "irq_signal_handler",
                    IF signum = "SIGUSR1" THEN INT_MOTOR_FAULT
                    ELSE INT_SENSOR_READY)

NextIrq ==
    \/ IrqRegisterHandler
    \/ IrqUnregisterHandler
    \/ IrqProcessPending
    \/ IrqEnable
    \/ IrqDisable
    \/ IrqEnableAll
    \/ IrqDisableAll
    \/ IrqTrigger
    \/ IrqClear
    \/ IrqSetupSignalHandler
    \/ IrqCleanup
    \/ IrqSignal

SpecIrq == InitIrq /\ [][NextIrq]_vars

(* ------------------------------------------------------------------ *)
(* The interrupt calls at the grain of their statements, with the     *)
(* bridged signals delivered between any two statements:              *)
(* specification SpecIrqAsync                                         *)
(* ------------------------------------------------------------------ *)

\* the controller and the registers as main sets them up before the loop:
\* handlers on motor fault, motor stall and sensor ready (contexts &motor,
\* &motor, &sensors, written 1, 1, 2) and the three sources enabled
MainIrqSetup ==
    LET r0 == irq_init(BootRegs)
        r1 == irq_register_handler(r0.ic, r0.regs, INT_MOTOR_FAULT,
                                   "callback", 1)
        r2 == irq_register_handler(r1.ic, r1.regs, INT_MOTOR_STALL,
                                   "callback", 1)
        r3 == irq_register_handler(r2.ic, r2.regs, INT_SENSOR_READY,
                                   "callback", 2)
        e1 == irq_enable(r3.ic, r3.regs, INT_MOTOR_FAULT)
        e2 == irq_enable(e1.ic, e1.regs, INT_MOTOR_STALL)
    IN  irq_enable(e2.ic, e2.regs, INT_SENSOR_READY)

\* the source a bridged signal is mapped to
SignalSource(signum) ==
    IF signum = "SIGUSR1" THEN INT_MOTOR_FAULT ELSE INT_SENSOR_READY

\* The thread that makes the calls: pc is the statement it stands before,
\* src the source argument of irq_trigger / irq_clear, back the statement
\* that follows the call, tmp the value of pending_irqs loaded by a
\* read-modify-write that the build did not compile to one instruction,
\* i and processed the locals of irq_process_pending.
AsyncThread ==
    [pc |-> "idle", bridge |-> TRUE, src |-> 0, back |-> "idle", tmp |-> 0,
     i |-> 0, processed |-> 0]

InitIrqAsync ==
    /\ env = [name |-> "async"]
    /\ regs = MainIrqSetup.regs
    /\ mc = motor_init(reg_init).mc
    /\ sa = sensor_array_init(reg_init).sa
    /\ ic = MainIrqSetup.ic
    /\ last_op = "init"
    /\ last_arg = 0
    /\ ret = 0
    /\ out = 0
    /\ pushed = <<>>
    /\ phase = "free"
    /\ ticks = 0
    /\ log = <<>>
    /\ owed = {}
    /\ drv = AsyncThread
    /\ shm = NoRegion
    /\ cli = NoClient

AsyncFrame ==
    UNCHANGED <<env, mc, sa, last_arg, out, pushed, phase, ticks, shm, cli>>

\* the loop of main calls irq_trigger(INT_MOTOR_FAULT) (main.c:166)
AsyncCallTrigger ==
    /\ drv.pc = "idle"
    /\ drv' = [drv EXCEPT !.pc = "trigger", !.src = INT_MOTOR_FAULT,
                          !.back = "idle"]
    /\ last_op' = "irq_trigger"
    /\ UNCHANGED <<ic, regs, ret, log, owed>>
    /\ AsyncFrame

\* a call of irq_clear on a source no signal is mapped to
AsyncCallClear ==
    /\ drv.pc = "idle"
    /\ drv' = [drv EXCEPT !.pc = "clear", !.src = INT_MOTOR_STALL,
                          !.back = "idle"]
    /\ last_op' = "irq_clear"
    /\ UNCHANGED <<ic, regs, ret, log, owed>>
    /\ AsyncFrame

\* the loop of main calls irq_process_pending (main.c:170)
AsyncCallDrain ==
    /\ drv.pc = "idle"
    /\ drv' = [drv EXCEPT !.pc = "latch", !.i = 0, !.processed = 0]
    /\ log' = <<>>
    /\ last_op' = "irq_process_pending"
    /\ UNCHANGED <<ic, regs, ret, owed>>
    /\ AsyncFrame

\* irq_trigger: the guards; a source that is not enabled returns
TriggerGate ==
    /\ drv.pc = "trigger"
    /\ ~(drv.src < INT_COUNT /\ Enabled(ic, drv.src))
    /\ drv' = [drv EXCEPT !.pc = drv.back]
    /\ UNCHANGED <<ic, regs, ret, log, owed, last_op>>
    /\ AsyncFrame

\* irq_trigger: pending_irqs |= (1 << source) as one instruction
TriggerOr ==
    /\ drv.pc = "trigger"
    /\ drv.src < INT_COUNT /\ Enabled(ic, drv.src)
    /\ ic' = [ic EXCEPT !.pending_irqs = BitOr(@, Shl1(drv.src))]
    /\ drv' = [drv EXCEPT !.pc = "trigger_reg"]
    /\ UNCHANGED <<regs, ret, log, owed, last_op>>
    /\ AsyncFrame

\* irq_trigger: pending_irqs |= (1 << source) as load, or, store: the load
TriggerLoad ==
    /\ drv.pc = "trigger"
    /\ drv.src < INT_COUNT /\ Enabled(ic, drv.src)
    /\ drv' = [drv EXCEPT !.pc = "trigger_store", !.tmp = ic.pending_irqs]
    /\ UNCHANGED <<ic, regs, ret, log, owed, last_op>>
    /\ AsyncFrame

TriggerStore ==
    /\ drv.pc = "trigger_store"
    /\ ic' = [ic EXCEPT !.pending_irqs = BitOr(drv.tmp, Shl1(drv.src))]
    /\ drv' = [drv EXCEPT !.pc = "trigger_reg", !.tmp = 0]
    /\ UNCHANGED <<regs, ret, log, owed, last_op>>
    /\ AsyncFrame

\* irq_trigger: reg_set_bits(REG_IRQ_STATUS, 1 << source) and return
TriggerReg ==
    /\ drv.pc = "trigger_reg"
    /\ regs' = reg_set_bits(regs, REG_IRQ_STATUS, Shl1(drv.src))
    /\ drv' = [drv EXCEPT !.pc = drv.back]
    /\ UNCHANGED <<ic, ret, log, owed, last_op>>
    /\ AsyncFrame

\* irq_clear: pending_irqs &= ~(1 << source) as one instruction
ClearAnd ==
    /\ drv.pc = "clear"
    /\ ic' = [ic EXCEPT !.pending_irqs = BitAnd(@, BitNot(Shl1(drv.src)))]
    /\ drv' = [drv EXCEPT !.pc = "clear_reg"]
    /\ UNCHANGED <<regs, ret, log, owed, last_op>>
    /\ AsyncFrame

\* irq_clear: pending_irqs &= ~(1 << source) as load, and, store: the load
ClearLoad ==
    /\ drv.pc = "clear"
    /\ drv' = [drv EXCEPT !.pc = "clear_store", !.tmp = ic.pending_irqs]
    /\ UNCHANGED <<ic, regs, ret, log, owed, last_op>>
    /\ AsyncFrame

ClearStore ==
    /\ drv.pc = "clear_store"
    /\ ic' = [ic EXCEPT !.pending_irqs = BitAnd(drv.tmp, BitNot(Shl1(drv.src)))]
    /\ drv' = [drv EXCEPT !.pc = "clear_reg", !.tmp = 0]
    /\ UNCHANGED <<regs, ret, log, owed, last_op>>
    /\ AsyncFrame

\* irq_clear: reg_clear_bits(REG_IRQ_STATUS, 1 << source) and return
ClearReg ==
    /\ drv.pc = "clear_reg"
    /\ regs' = reg_clear_bits(regs, REG_IRQ_STATUS, Shl1(drv.src))
    /\ drv' = [drv EXCEPT !.pc = drv.back]
    /\ UNCHANGED <<ic, ret, log, owed, last_op>>
    /\ AsyncFrame

\* irq_process_pending: if (ic->signal_received)
LatchTest ==
    /\ drv.pc = "latch"
    /\ drv' = [drv EXCEPT !.pc = IF ic.signal_received # 0
                                 THEN "latch_clear" ELSE "loop"]
    /\ UNCHANGED <<ic, regs, ret, log, owed, last_op>>
    /\ AsyncFrame

\* irq_process_pending: signal_received = 0, then the call
\* irq_trigger(ic, INT_TIMER), which returns into the loop
LatchClear ==
    /\ drv.pc = "latch_clear"
    /\ ic' = [ic EXCEPT !.signal_received = 0]
    /\ drv' = [drv EXCEPT !.pc = "trigger", !.src = INT_TIMER,
                          !.back = "loop"]
    /\ UNCHANGED <<regs, ret, log, owed, last_op>>
    /\ AsyncFrame

\* irq_process_pending: one round of the for loop, the handler call
\* included; a handler that runs has served the signals delivered for its
\* source so far
DrainRound ==
    /\ drv.pc = "loop"
    /\ LET d == DrainSource([ic |-> ic, regs |-> regs, log |-> log,
                             processed |-> drv.processed], drv.i)
       IN  /\ ic' = d.ic
           /\ regs' = d.regs
           /\ log' = d.log
           /\ owed' = IF d.processed # drv.processed
                      THEN owed \ {drv.i} ELSE owed
           /\ drv' = [drv EXCEPT !.processed = d.processed,
                                 !.i = drv.i + 1,
                                 !.pc = IF drv.i + 1 >= INT_COUNT
                                        THEN "drain_clear" ELSE "loop"]
    /\ UNCHANGED <<ret, last_op>>
    /\ AsyncFrame

\* irq_process_pending: ic->pending_irqs = 0
DrainClearMask ==
    /\ drv.pc = "drain_clear"
    /\ ic' = [ic EXCEPT !.pending_irqs = 0]
    /\ drv' = [drv EXCEPT !.pc = "drain_reg"]
    /\ UNCHANGED <<regs, ret, log, owed, last_op>>
    /\ AsyncFrame

\* irq_process_pending: reg_write(REG_IRQ_STATUS, 0); return processed
DrainReg ==
    /\ drv.pc = "drain_reg"
    /\ regs' = reg_write(regs, REG_IRQ_STATUS, 0)
    /\ ret' = drv.processed
    /\ drv' = [drv EXCEPT !.pc = "idle", !.i = 0, !.processed = 0]
    /\ UNCHANGED <<ic, log, owed, last_op>>
    /\ AsyncFrame

\* SIGUSR1 or SIGUSR2 delivered before the statement at pc: the bridge runs
\* to its end.  The signal is owed a handler call when its source is enabled
\* and has a handler.
AsyncSignal ==
    \E signum \in Signals :
        /\ drv.bridge
        /\ ic' = irq_signal_handler(ic, signum)
        /\ owed' = IF /\ Enabled(ic, SignalSource(signum))
                      /\ ic.handlers[SignalSource(signum)] # NoHandler
                   THEN owed \cup {SignalSource(signum)} ELSE owed
        /\ UNCHANGED <<regs, ret, log, drv, last_op>>
        /\ AsyncFrame

NextIrqAsync ==
    \/ AsyncCallTrigger
    \/ AsyncCallClear
    \/ AsyncCallDrain
    \/ TriggerGate
    \/ TriggerOr
    \/ TriggerLoad
    \/ TriggerStore
    \/ TriggerReg
    \/ ClearAnd
    \/ ClearLoad
    \/ ClearStore
    \/ ClearReg
    \/ LatchTest
    \/ LatchClear
    \/ DrainRound
    \/ DrainClearMask
    \/ DrainReg
    \/ AsyncSignal

SpecIrqAsync == InitIrqAsync /\ [][NextIrqAsync]_vars

(* ------------------------------------------------------------------ *)
(* The driver loop of main.c with a client of the shared region:      *)
(* specifications SpecLoop and FairSpecLoop                           *)
(* ------------------------------------------------------------------ *)

\* sensor_read_all(sa, values, 4)
sensor_read_all(s) == [i \in Channels |-> s.sensors[i].value]

\* the data of a response: the given words, then zeros
Data(words) ==
    [k \in 0 .. 7 |-> IF k < Len(words) THEN words[k + 1] ELSE 0]

\* process_command: the call the command names, then shm_send_response
process_command(h, m, s, rf, cmd, param1, param2) ==
    LET status(r) == IF r.ret < 0 THEN RESP_ERROR ELSE RESP_OK
        same == [mc |-> m, sa |-> s, regs |-> rf]
        done(r, st, data) ==
            [mc |-> r.mc, sa |-> r.sa, regs |-> r.regs,
             shm |-> shm_send_response(h, st, data)]
    IN  CASE cmd = CMD_MOTOR_START ->
                 LET r == motor_start(m, rf, param1, param2)
                 IN  done([same EXCEPT !.mc = r.mc, !.regs = r.regs],
                          status(r), NoData)
          [] cmd = CMD_MOTOR_STOP ->
                 LET r == motor_stop(m, rf)
                 IN  done([same EXCEPT !.mc = r.mc, !.regs = r.regs],
                          status(r), NoData)
          [] cmd = CMD_MOTOR_SET_SPEED ->
                 LET r == motor_set_speed(m, rf, param1)
                 IN  done([same EXCEPT !.mc = r.mc, !.regs = r.regs],
                          status(r), NoData)
          [] cmd = CMD_SENSOR_READ ->
                 done(same, RESP_OK,
                      Data(<<s.sensors[0].value, s.sensors[1].value,
                             s.sensors[2].value, s.sensors[3].value>>))
          [] cmd = CMD_GET_STATUS ->
                 done(same, RESP_OK,
                      Data(<<m.state, m.current_speed, m.position,
                             m.fault_code>>))
          [] cmd = CMD_RESET ->
                 LET r == motor_reset(m, rf)
                     c == sensor_buffer_clear(s, r.regs)
                 IN  done([mc |-> r.mc, sa |-> c.sa, regs |-> c.regs],
                          RESP_OK, NoData)
          [] OTHER -> done(same, RESP_INVALID_CMD, NoData)

\* the commands a client sends: the command word CMD_NONE, a stop, a change
\* of speed below the demo speed, a status query and a command word outside
\* the enumeration
LoopCommands ==
    { [cmd |-> CMD_NONE, param1 |-> 0, param2 |-> 0],
      [cmd |-> CMD_MOTOR_STOP, param1 |-> 0, param2 |-> 0],
      [cmd |-> CMD_MOTOR_SET_SPEED, param1 |-> 300, param2 |-> 0],
      [cmd |-> CMD_GET_STATUS, param1 |-> 0, param2 |-> 0],
      [cmd |-> 99, param1 |-> 0, param2 |-> 0] }

\* the components when main reaches its loop: construction, interrupt
\* setup, sensor_array_enable, motor_start(5000, CW), the four simulated
\* values
MainSetup ==
    LET i == MainIrqSetup
        e == sensor_array_enable(sensor_array_init(reg_init).sa, i.regs)
        m == motor_start(motor_init(reg_init).mc, e.regs, 5000, MOTOR_DIR_CW)
        v == sensor_set_simulated_value(
                 sensor_set_simulated_value(
                     sensor_set_simulated_value(
                         sensor_set_simulated_value(e.sa, 0, 100),
                         1, 5000),
                     2, 45),
                 3, 2500)
    IN  [mc |-> m.mc, sa |-> v, ic |-> i.ic, regs |-> m.regs]

\* the main thread before the while test of its loop; g_running is the flag
\* the handler of SIGINT / SIGTERM clears
MainThread == [pc |-> "while", bridge |-> TRUE, g_running |-> 1, tick |-> 0]

\* the client processes attached to the region
Clients == {1, 2}

\* a client: idle, or between shm_send_command and shm_wait_response; sent
\* counts its commands; status and data are what shm_wait_response stored
\* last.  History: pc is "sent" while the client's command is in the mailbox
\* unanswered and "answered" once process_command has answered it, with the
\* response it produced in due_status and due_data.
ClientStart ==
    [pc |-> "idle", sent |-> 0, status |-> RESP_OK, data |-> NoData,
     due_status |-> RESP_OK, due_data |-> NoData]

InitLoop ==
    /\ env = [name |-> "loop"]
    /\ regs = MainSetup.regs
    /\ mc = MainSetup.mc
    /\ sa = MainSetup.sa
    /\ ic = MainSetup.ic
    /\ last_op = "init"
    /\ last_arg = 0
    /\ ret = 0
    /\ out = 0
    /\ pushed = <<>>
    /\ phase = "free"
    /\ ticks = 0
    /\ log = <<>>
    /\ owed = {}
    /\ drv = MainThread
    /\ shm = shm_create
    /\ cli = [i \in Clients |-> ClientStart]

LoopFrame == UNCHANGED <<env, last_arg, out, pushed, phase, ticks, owed>>

\* while (g_running && !shm_is_shutdown_requested(shm))
LoopTest ==
    /\ drv.pc = "while"
    /\ drv.tick < MaxTicks
       \/ ~(drv.g_running # 0 /\ ~shm_is_shutdown_requested(shm))
    /\ drv' = [drv EXCEPT !.pc =
                   IF drv.g_running # 0 /\ ~shm_is_shutdown_requested(shm)
                   THEN "tick" ELSE "shutdown"]
    /\ last_op' = "while"
    /\ UNCHANGED <<regs, mc, sa, ic, ret, log, shm, cli>>
    /\ LoopFrame

\* the tick up to shm_update_status: motor_update, the sensor trigger every
\* tenth tick (its return value is ignored), sensor_array_update, the
\* motor-fault interrupt, irq_process_pending, the status snapshot.  Each
\* call is evaluated once, its result named by a quantifier over a
\* one-element set.
LoopTick ==
    /\ drv.pc = "tick"
    /\ \E m \in {motor_update(mc, regs)} :
       \E t \in {IF drv.tick % 10 = 0
                 THEN sensor_array_trigger(sa, m.regs)
                 ELSE [sa |-> sa, regs |-> m.regs, ret |-> 0]} :
       \E u \in {sensor_array_update(t.sa, t.regs)} :
       \E f \in {IF m.mc.state = MOTOR_STATE_FAULT
                 THEN irq_trigger(ic, u.regs, INT_MOTOR_FAULT)
                 ELSE [ic |-> ic, regs |-> u.regs, ret |-> 0]} :
       \E p \in {irq_process_pending(f.ic, f.regs)} :
           /\ mc' = m.mc
           /\ sa' = u.sa
           /\ ic' = p.ic
           /\ regs' = p.regs
           /\ log' = p.log
           /\ shm' = shm_update_status(shm, m.mc.state, m.mc.current_speed,
                                       m.mc.position, sensor_read_all(u.sa),
                                       m.mc.fault_code)
    /\ drv' = [drv EXCEPT !.pc = "get_command"]
    /\ last_op' = "tick"
    /\ UNCHANGED <<ret, cli>>
    /\ LoopFrame

\* if (shm_get_command(...) == 0 && cmd != CMD_NONE) process_command(...);
\* tick++.  The step waits inside shm_get_command until a command is pending
\* or shutdown is requested.
LoopGetCommand ==
    /\ drv.pc = "get_command"
    /\ CanGetCommand(shm)
    /\ \E g \in {shm_get_command(shm)} :
           /\ ret' = g.ret
           /\ IF g.ret = 0 /\ g.cmd # CMD_NONE
              THEN \E r \in {process_command(shm, mc, sa, regs, g.cmd,
                                              g.param1, g.param2)} :
                       /\ mc' = r.mc
                       /\ sa' = r.sa
                       /\ regs' = r.regs
                       /\ shm' = r.shm
                       /\ cli' = [i \in Clients |->
                                    IF cli[i].pc = "sent"
                                    THEN [cli[i] EXCEPT
                                             !.pc = "answered",
                                             !.due_status = r.shm.resp_status,
                                             !.due_data = r.shm.resp_data]
                                    ELSE cli[i]]
              ELSE UNCHANGED <<mc, sa, regs, shm, cli>>
    /\ drv' = [drv EXCEPT !.pc = "while", !.tick = @ + 1]
    /\ last_op' = "get_command"
    /\ UNCHANGED <<ic, log>>
    /\ LoopFrame

\* while (motor_is_running(&motor)) motor_update(&motor)
RECURSIVE RampDown(_)
RampDown(r) ==
    IF motor_is_running(r.mc) THEN RampDown(motor_update(r.mc, r.regs))
    ELSE r

\* after the loop: motor_stop, the ramp-down loop, sensor_array_disable,
\* irq_cleanup, shm_destroy
LoopShutdown ==
    /\ drv.pc = "shutdown"
    /\ \E m \in {RampDown(motor_stop(mc, regs))} :
       \E s \in {sensor_array_disable(sa, m.regs)} :
       \E c \in {irq_cleanup(ic, s.regs)} :
           /\ mc' = m.mc
           /\ sa' = s.sa
           /\ ic' = c.ic
           /\ regs' = c.regs
    /\ shm' = shm_destroy(shm)
    /\ drv' = [drv EXCEPT !.pc = "exited", !.bridge = FALSE]
    /\ last_op' = "shutdown"
    /\ UNCHANGED <<ret, log, cli>>
    /\ LoopFrame

\* SIGINT or SIGTERM: shutdown_handler clears g_running
ShutdownSignal ==
    /\ drv.pc # "exited"
    /\ drv.g_running # 0
    /\ drv' = [drv EXCEPT !.g_running = 0]
    /\ UNCHANGED <<regs, mc, sa, ic, last_op, ret, log, shm, cli>>
    /\ LoopFrame

\* the client calls shm_send_command; the call waits while a command is
\* pending
ClientSendCommand ==
    \E i \in Clients, c \in LoopCommands :
        /\ shm.created
        /\ cli[i].pc = "idle"
        /\ cli[1].sent + cli[2].sent < MaxCommands
        /\ CanSendCommand(shm)
        /\ shm' = shm_send_command(shm, c.cmd, c.param1, c.param2)
        /\ cli' = [cli EXCEPT ![i].pc = "sent", ![i].sent = @ + 1]
        /\ UNCHANGED <<regs, mc, sa, ic, last_op, ret, log, drv>>
        /\ LoopFrame

\* the client calls shm_wait_response; the call waits until a response is
\* there
ClientWaitResponse ==
    \E i \in Clients :
        /\ shm.created
        /\ cli[i].pc \in {"sent", "answered"}
        /\ CanWaitResponse(shm)
        /\ LET w == shm_wait_response(shm)
           IN  /\ shm' = w.shm
               /\ cli' = [cli EXCEPT ![i].pc = "idle", ![i].status = w.status,
                                     ![i].data = w.data]
        /\ UNCHANGED <<regs, mc, sa, ic, last_op, ret, log, drv>>
        /\ LoopFrame

\* a client calls shm_request_shutdown
ClientRequestShutdown ==
    /\ shm.created
    /\ ~shm.shutdown_requested
    /\ shm' = shm_request_shutdown(shm)
    /\ UNCHANGED <<regs, mc, sa, ic, last_op, ret, log, drv, cli>>
    /\ LoopFrame

\* the steps of the main thread
MainStep ==
    \/ LoopTest
    \/ LoopTick
    \/ LoopGetCommand
    \/ LoopShutdown

NextLoop ==
    \/ LoopTest
    \/ LoopTick
    \/ LoopGetCommand
    \/ LoopShutdown
    \/ ShutdownSignal
    \/ ClientSendCommand
    \/ ClientWaitResponse
    \/ ClientRequestShutdown

SpecLoop == InitLoop /\ [][NextLoop]_vars

\* the main thread runs whenever it is not waiting; nothing is assumed of
\* the client or of the signals
FairSpecLoop == SpecLoop /\ WF_vars(MainStep)

(* ------------------------------------------------------------------ *)
(* The three components on one register file, each called while the   *)
(* other two hold state of their own: specification SpecFrame         *)
(* ------------------------------------------------------------------ *)

\* The components set up as main sets them up (the simulated sensor values
\* left at 0), after one motor_update, one sensor_array_trigger and an
\* irq_trigger of the motor-fault source: every component has registers
\* that are not zero.
FrameSensorEnabled ==
    sensor_array_enable(sensor_array_init(reg_init).sa, MainIrqSetup.regs)

FrameMotorStarted ==
    motor_start(motor_init(reg_init).mc, FrameSensorEnabled.regs, 5000,
                MOTOR_DIR_CW)

FrameMotorUpdated == motor_update(FrameMotorStarted.mc, FrameMotorStarted.regs)

FrameSensorTriggered ==
    sensor_array_trigger(FrameSensorEnabled.sa, FrameMotorUpdated.regs)

FrameIrqTriggered ==
    irq_trigger(MainIrqSetup.ic, FrameSensorTriggered.regs, INT_MOTOR_FAULT)

FrameStart ==
    [mc |-> FrameMotorUpdated.mc, sa |-> FrameSensorTriggered.sa,
     ic |-> FrameIrqTriggered.ic, regs |-> FrameIrqTriggered.regs]

\* The calls of a run: those of one component, comp, with alphabets as in
\* that component's own specification.
FrameEnvs ==
    { [name |-> "frame", comp |-> "motor",
       speeds |-> {0, MAX_SPEED}, faults |-> {MOTOR_FAULT_STALL},
       track |-> FALSE],
      [name |-> "frame", comp |-> "sensor",
       ops |-> {"enable", "disable", "trigger", "set_continuous", "update",
                "set_value", "read", "push", "pop", "clear"},
       ids |-> {1}, values |-> {0}],
      [name |-> "frame", comp |-> "irq", ops |-> IrqOps,
       sources |-> {INT_MOTOR_FAULT, INT_TIMER, INT_COUNT},
       hsources |-> {INT_TIMER},
       handlers |-> {<<"callback", 1>>}, signals |-> Signals] }

InitFrame ==
    /\ env \in FrameEnvs
    /\ regs = FrameStart.regs
    /\ mc = FrameStart.mc
    /\ sa = FrameStart.sa
    /\ ic = FrameStart.ic
    /\ last_op = "init"
    /\ last_arg = IF env.comp = "sensor" THEN NoCall ELSE 0
    /\ ret = 0
    /\ out = 0
    /\ pushed = <<>>
    /\ phase = "free"
    /\ ticks = 0
    /\ log = <<>>
    /\ owed = {}
    /\ drv = [TestProcess EXCEPT !.bridge = TRUE]
    /\ shm = NoRegion
    /\ cli = NoClient

\* one call of the component of the run
NextFrame ==
    \/ env.comp = "motor" /\ MotorStart
    \/ env.comp = "motor" /\ MotorStop
    \/ env.comp = "motor" /\ MotorBrake
    \/ env.comp = "motor" /\ MotorSetSpeed
    \/ env.comp = "motor" /\ MotorReset
    \/ env.comp = "motor" /\ MotorUpdate
    \/ env.comp = "motor" /\ MotorInjectFault
    \/ env.comp = "motor" /\ MotorClearFault
    \/ env.comp = "sensor" /\ SensorEnable
    \/ env.comp = "sensor" /\ SensorDisable
    \/ env.comp = "sensor" /\ SensorTrigger
    \/ env.comp = "sensor" /\ SensorSetContinuous
    \/ env.comp = "sensor" /\ SensorRead
    \/ env.comp = "sensor" /\ SensorSetSimulatedValue
    \/ env.comp = "sensor" /\ SensorBufferPush
    \/ env.comp = "sensor" /\ SensorBufferPop
    \/ env.comp = "sensor" /\ SensorBufferClear
    \/ env.comp = "sensor" /\ SensorUpdate
    \/ env.comp = "irq" /\ IrqRegisterHandler
    \/ env.comp = "irq" /\ IrqUnregisterHandler
    \/ env.comp = "irq" /\ IrqProcessPending
    \/ env.comp = "irq" /\ IrqEnable
    \/ env.comp = "irq" /\ IrqDisable
    \/ env.comp = "irq" /\ IrqEnableAll
    \/ env.comp = "irq" /\ IrqDisableAll
    \/ env.comp = "irq" /\ IrqTrigger
    \/ env.comp = "irq" /\ IrqClear
    \/ env.comp = "irq" /\ IrqSetupSignalHandler
    \/ env.comp = "irq" /\ IrqCleanup
    \/ env.comp = "irq" /\ IrqSignal

SpecFrame == InitFrame /\ [][NextFrame]_vars

(* ------------------------------------------------------------------ *)
(* Properties                                                         *)
(* ------------------------------------------------------------------ *)

RunningBit == TestBits(StatusReg, MOTOR_STATUS_RUNNING)
EnableBit  == TestBits(CtrlReg, MOTOR_CTRL_ENABLE)
BrakeBit   == TestBits(CtrlReg, MOTOR_CTRL_BRAKE)

\* C1 (as claimed): in every reachable state the MOTOR_STATUS running bit is
\* set if and only if the state is running, or starting with current_speed > 0.
C1_RunningBitIffClaim ==
    RunningBit <=> \/ mc.state = MOTOR_STATE_RUNNING
                   \/ mc.state = MOTOR_STATE_STARTING /\ mc.current_speed # 0

\* C1 (amended): the running bit is set whenever the state is running, clear
\* whenever the state is idle or recovery, and set in state starting once an
\* update tick has run in that state.  (In stopping and fault the bit keeps the
\* value it had: it stays set during the ramp-down until idle is reached.)
C1_RunningBit ==
    /\ mc.state = MOTOR_STATE_RUNNING => RunningBit
    /\ mc.state \in {MOTOR_STATE_IDLE, MOTOR_STATE_RECOVERY} => ~RunningBit
    /\ (last_op = "update" /\ mc.state = MOTOR_STATE_STARTING) => RunningBit

\* C1 witness: an update tick has run in state starting and the bit is set
C1_Witness ==
    /\ last_op = "update"
    /\ mc.state = MOTOR_STATE_STARTING
    /\ mc.current_speed # 0
    /\ RunningBit

\* C2 (as claimed): current_speed <= target_speed in every reachable state.
C2_SpeedBelowTargetClaim == U32Le(mc.current_speed, mc.target_speed)

\* C2 (amended): target_speed <= 10000 in every reachable state, and
\* current_speed <= target_speed is broken only by a call of stop, set_speed or
\* start (which lower the target under the current speed): no update tick,
\* brake, reset, inject_fault or clear_fault takes a state with
\* current_speed <= target_speed to one with current_speed > target_speed.
C2_SpeedBelowTarget ==
    /\ [](InRange(mc.target_speed))
    /\ [][(/\ U32Le(mc.current_speed, mc.target_speed)
           /\ last_op' \notin {"stop", "set_speed", "start"})
          => U32Le(mc.current_speed', mc.target_speed')]_vars

\* C2 witness: an update tick has ramped towards a target it has not reached
C2_Witness ==
    /\ last_op = "update"
    /\ mc.state = MOTOR_STATE_RUNNING
    /\ mc.current_speed # 0
    /\ U32Lt(mc.current_speed, mc.target_speed)

\* C3 (as claimed): target_speed, current_speed and the MOTOR_SPEED register
\* stay within 0..10000 for any requested speeds and any operations.
C3_SpeedsInRangeClaim ==
    /\ InRange(mc.target_speed)
    /\ InRange(mc.current_speed)
    /\ InRange(SpeedReg)

\* C4: after every motor_update call, whatever the state it was called in, the
\* MOTOR_SPEED register equals current_speed.
C4_SpeedRegAfterUpdate ==
    last_op = "update" => SpeedReg = mc.current_speed

\* C4 witness: the early return of update on a fault bit, with the motor moving
C4_Witness ==
    /\ last_op = "update"
    /\ mc.state = MOTOR_STATE_FAULT
    /\ ~NoFaultBits
    /\ mc.current_speed # 0
    /\ SpeedReg = mc.current_speed

\* C5 (as claimed): outside recovery, state = fault iff fault_code # none.
C5_FaultIffCodeClaim ==
    mc.state # MOTOR_STATE_RECOVERY =>
        (mc.state = MOTOR_STATE_FAULT <=> mc.fault_code # MOTOR_FAULT_NONE)

\* the longest ramp between 0 and MAX_SPEED, in update ticks
RampTicks == MAX_SPEED \div SPEED_RAMP_RATE

\* C6 (as claimed): after motor_start(t, dir), t <= 10000, on an idle motor
\* with no fault bits, followed only by update ticks: current_speed never
\* decreases from one tick to the next, the motor comes to state running with
\* current_speed = t (here: by the time the tick counter saturates) and then
\* stays there.
C6_RampClaim ==
    /\ [][(phase = "ramp" /\ phase' = "ramp")
          => U32Le(mc.current_speed, mc.current_speed')]_vars
    /\ [][(/\ phase = "ramp" /\ phase' = "ramp"
           /\ mc.state = MOTOR_STATE_RUNNING
           /\ mc.current_speed = mc.target_speed)
          => (/\ mc.state' = MOTOR_STATE_RUNNING
              /\ mc.current_speed' = mc.current_speed)]_vars
    /\ []((phase = "ramp" /\ ticks = TickCap)
          => (/\ mc.state = MOTOR_STATE_RUNNING
              /\ mc.current_speed = mc.target_speed))

\* C7: in state fault, motor_start and motor_set_speed return -2 and change
\* nothing: every field of the controller and every register keeps its value.
C7_FaultBlocksStart ==
    [][(mc.state = MOTOR_STATE_FAULT /\ last_op' \in {"start", "set_speed"})
       => (ret' = -2 /\ mc' = mc /\ regs' = regs)]_vars

\* C7 witness: a start refused while the faulted motor still has speed
C7_Witness ==
    /\ last_op = "start"
    /\ ret = -2
    /\ mc.state = MOTOR_STATE_FAULT
    /\ mc.current_speed # 0

\* the MOTOR_STATUS bit that reports a fault kind (register layout, bits 1..3)
StatusBitOf(k) ==
    CASE k = MOTOR_FAULT_STALL       -> MOTOR_STATUS_STALL
      [] k = MOTOR_FAULT_OVERHEAT    -> MOTOR_STATUS_OVERHEAT
      [] k = MOTOR_FAULT_OVERCURRENT -> MOTOR_STATUS_FAULT

\* C8: for every fault kind k and every prior state, inject_fault(k) gives
\* state fault, fault_code k and the matching MOTOR_STATUS bit; a following
\* clear_fault gives state recovery with fault_code none; one following update
\* gives state idle with fault_code none.
C8_FaultRecovery ==
    /\ [][last_op' = "inject_fault"
          => (/\ mc.state' = MOTOR_STATE_FAULT
              /\ mc.fault_code' = last_arg'
              /\ TestBits(reg_read(regs', REG_MOTOR_STATUS),
                          StatusBitOf(last_arg')))]_vars
    /\ [][(last_op = "inject_fault" /\ last_op' = "clear_fault")
          => (/\ mc.state' = MOTOR_STATE_RECOVERY
              /\ mc.fault_code' = MOTOR_FAULT_NONE)]_vars
    /\ [][(/\ last_op = "clear_fault" /\ mc.state = MOTOR_STATE_RECOVERY
           /\ last_op' = "update")
          => (/\ mc.state' = MOTOR_STATE_IDLE
              /\ mc.fault_code' = MOTOR_FAULT_NONE)]_vars

\* C8 witness: idle again by the update tick that follows a clear_fault; an
\* idle motor with current_speed left from before the fault can only have come
\* through recovery
C8_Witness ==
    /\ last_op = "update"
    /\ mc.state = MOTOR_STATE_IDLE
    /\ mc.fault_code = MOTOR_FAULT_NONE
    /\ mc.current_speed # 0
    /\ NoFaultBits

\* C9: motor_stop in state running at a speed <= 10000 gives state stopping,
\* target_speed 0 and MOTOR_CTRL enable clear; with only update ticks after it
\* and no fault bits, from the 20th tick on the motor is idle with
\* current_speed 0, MOTOR_SPEED 0 and the running bit clear.  motor_stop in
\* state idle returns 0 and changes nothing.
C9_StopRampsDown ==
    /\ [][(/\ mc.state = MOTOR_STATE_RUNNING /\ InRange(mc.current_speed)
           /\ last_op' = "stop")
          => (/\ mc.state' = MOTOR_STATE_STOPPING
              /\ mc.target_speed' = 0
              /\ ~TestBits(reg_read(regs', REG_MOTOR_CTRL), MOTOR_CTRL_ENABLE))]_vars
    /\ []((phase = "drain" /\ ticks >= RampTicks)
          => (/\ mc.state = MOTOR_STATE_IDLE
              /\ mc.current_speed = 0
              /\ SpeedReg = 0
              /\ ~RunningBit))
    /\ [][(mc.state = MOTOR_STATE_IDLE /\ last_op' = "stop")
          => (ret' = 0 /\ mc' = mc /\ regs' = regs)]_vars

\* C9 witness: idle reached by the 20th tick after a stop, and not before
C9_Witness ==
    /\ phase = "drain"
    /\ ticks = RampTicks
    /\ last_op = "update"
    /\ mc.state = MOTOR_STATE_IDLE
    /\ mc.current_speed = 0

\* C10: motor_brake, called in any state, returns 0 and leaves state idle,
\* current_speed 0, target_speed 0, the brake bit set, the enable bit clear,
\* the running bit clear and MOTOR_SPEED 0.
C10_Brake ==
    last_op = "brake" =>
        /\ ret = 0
        /\ mc.state = MOTOR_STATE_IDLE
        /\ mc.current_speed = 0
        /\ mc.target_speed = 0
        /\ BrakeBit
        /\ ~EnableBit
        /\ ~RunningBit
        /\ SpeedReg = 0

\* C10 witness: a brake on a motor that was in fault (its fault bits remain)
C10_Witness ==
    /\ last_op = "brake"
    /\ mc.state = MOTOR_STATE_IDLE
    /\ ~NoFaultBits
    /\ BrakeBit

\* C11 (as claimed): after motor_reset called in any state, the four motor
\* registers read 0, the state is idle, fault_code is none, current_speed and
\* target_speed are 0 and the position is back at 0.
C11_ResetClaim ==
    last_op = "reset" =>
        /\ CtrlReg = 0
        /\ StatusReg = 0
        /\ SpeedReg = 0
        /\ PositionReg = 0
        /\ mc.state = MOTOR_STATE_IDLE
        /\ mc.fault_code = MOTOR_FAULT_NONE
        /\ mc.current_speed = 0
        /\ mc.target_speed = 0
        /\ mc.position = 0

(* ------------------------------------------------------------------ *)
(* Properties of the register file (SpecReg)                          *)
(* ------------------------------------------------------------------ *)

\* C12: for every aligned offset o in [0, 0x24) and every 32-bit value v,
\* reg_read(o) right after reg_write(o, v) returns v; after reg_init all nine
\* words read 0.
C12_ReadAfterWrite ==
    /\ [][(/\ last_op = "reg_write" /\ InFile(last_arg.offset)
           /\ last_op' = "reg_read" /\ last_arg'.offset = last_arg.offset)
          => ret' = last_arg.value]_vars
    /\ [](last_op = "reg_init"
          => \A w \in RegWords : reg_read(regs, 4 * w) = 0)

\* C12 witness: 0x80000000 written to a word and read back from it
C12_Witness ==
    /\ last_op = "reg_read"
    /\ InFile(last_arg.offset)
    /\ last_arg.pair = <<"written", MinInt32>>
    /\ ret = MinInt32

\* C13: for every offset o >= 0x24, reg_read(o) returns 0xFFFFFFFF, and
\* reg_write, reg_set_bits and reg_clear_bits at o leave all nine words
\* unchanged.
C13_InvalidOffset ==
    /\ [][(last_op' = "reg_read" /\ ~InFile(last_arg'.offset))
          => ret' = -1]_vars
    /\ [][(/\ last_op' \in {"reg_write", "reg_set_bits", "reg_clear_bits"}
           /\ ~InFile(last_arg'.offset))
          => regs' = regs]_vars

\* C13 witness: every bit cleared at offset 0x24 while a word of the file
\* holds a value
C13_Witness ==
    /\ last_op = "reg_clear_bits"
    /\ last_arg.offset = REGISTER_FILE_SIZE
    /\ last_arg.value = -1
    /\ \E w \in RegWords : regs[w] # 0

\* C14 (as claimed): for every in-range offset o, mask m and word w,
\* clear_bits(o, m) followed by set_bits(o, m) restores the bits of w within
\* m: the word read afterwards equals w on the bit positions of m.
C14_ClearSetRestoresClaim ==
    [][(/\ last_op = "reg_clear_bits" /\ InFile(last_arg.offset)
        /\ last_op' = "reg_set_bits"
        /\ last_arg'.offset = last_arg.offset
        /\ last_arg'.value = last_arg.value)
       => BitAnd(reg_read(regs', last_arg.offset), last_arg.value)
              = BitAnd(last_arg.before, last_arg.value)]_vars

\* C14 (amended): clear_bits(o, m) followed by set_bits(o, m) on a word w
\* leaves w | m: every bit of m set, whatever it was in w, and the bits
\* outside m as they were in w.
C14_ClearSetGivesOr ==
    [][(/\ last_op = "reg_clear_bits" /\ InFile(last_arg.offset)
        /\ last_op' = "reg_set_bits"
        /\ last_arg'.offset = last_arg.offset
        /\ last_arg'.value = last_arg.value)
       => reg_read(regs', last_arg.offset)
              = BitOr(last_arg.before, last_arg.value)]_vars

\* C14 witness: the pair applied with mask 5 to a word that had bit 31 set
\* and the bits of the mask clear
C14_Witness ==
    /\ last_op = "reg_set_bits"
    /\ InFile(last_arg.offset)
    /\ last_arg.value = 5
    /\ last_arg.pair = <<"cleared", MinInt32>>
    /\ reg_read(regs, last_arg.offset) = BitOr(MinInt32, 5)

(* ------------------------------------------------------------------ *)
(* Properties of the sensor array (SpecSensor)                        *)
(* ------------------------------------------------------------------ *)

OverflowBit ==
    TestBits(reg_read(regs, REG_SENSOR_STATUS), SENSOR_STATUS_OVERFLOW)

SensorEnableBit ==
    TestBits(reg_read(regs, REG_SENSOR_CTRL), SENSOR_CTRL_ENABLE)

\* C15: the sensor ring is FIFO: a pop succeeds exactly when an accepted
\* value has not been handed out yet and then returns the oldest such value;
\* after k successful pushes and j successful pops sensor_buffer_count
\* returns k - j (the length of the history of values accepted and not yet
\* handed out), also when head has wrapped around past index 15.
C15_RingIsFifo ==
    /\ [][last_op' = "pop"
          => (/\ ret' = 0 <=> pushed # <<>>
              /\ ret' = 0 => out' = Head(pushed))]_vars
    /\ [](sensor_buffer_count(sa) = Len(pushed))

\* C15 witness: in a run with numbered samples, a pop hands out a value while
\* head has wrapped around behind tail and more values wait behind it
C15_Witness ==
    /\ env.name = "fifo"
    /\ last_op = "pop"
    /\ ret = 0
    /\ sa.buffer_head < sa.buffer_tail
    /\ Len(pushed) >= 2
    /\ out + 1 = Head(pushed)

\* C16: after any sequence of push, pop, clear and sensor_array_update calls,
\* buffer_head and buffer_tail are in 0..15, sensor_buffer_count equals
\* (head - tail + 16) mod 16, and the count never exceeds 15.
C16_RingIndices ==
    /\ sa.buffer_head \in Slots
    /\ sa.buffer_tail \in Slots
    /\ sensor_buffer_count(sa) =
           ((sa.buffer_head - sa.buffer_tail) + SENSOR_BUFFER_SIZE)
               % SENSOR_BUFFER_SIZE
    /\ sensor_buffer_count(sa) <= SENSOR_BUFFER_SIZE - 1

\* C16 witness: an update in continuous mode has filled the ring to 15
\* entries, with head wrapped around behind tail
C16_Witness ==
    /\ last_op = "update"
    /\ sa.buffer_head < sa.buffer_tail
    /\ sensor_buffer_count(sa) = SENSOR_BUFFER_SIZE - 1
    /\ OverflowBit

\* C17: sensor_buffer_push succeeds exactly when the ring holds fewer than 15
\* entries; when it holds 15 the push returns -2, sets the SENSOR_STATUS
\* overflow bit and leaves head, tail and the buffered values unchanged; the
\* overflow bit then stays set under every call but sensor_buffer_clear,
\* which resets head and tail to 0 and clears it.
C17_PushOnFull ==
    /\ [][last_op' = "push"
          => (/\ ret' = 0 <=> Len(pushed) < SENSOR_BUFFER_SIZE - 1
              /\ Len(pushed) = SENSOR_BUFFER_SIZE - 1
                 => (/\ ret' = -2
                     /\ TestBits(reg_read(regs', REG_SENSOR_STATUS),
                                 SENSOR_STATUS_OVERFLOW)
                     /\ sa' = sa))]_vars
    /\ [][(OverflowBit /\ last_op' # "clear")
          => TestBits(reg_read(regs', REG_SENSOR_STATUS),
                      SENSOR_STATUS_OVERFLOW)]_vars
    /\ [][last_op' = "clear"
          => (/\ sa'.buffer_head = 0
              /\ sa'.buffer_tail = 0
              /\ ~TestBits(reg_read(regs', REG_SENSOR_STATUS),
                           SENSOR_STATUS_OVERFLOW))]_vars

\* C17 witness: a push refused on a ring that came to 15 entries through
\* pushes and pops (tail is not at slot 0)
C17_Witness ==
    /\ last_op = "push"
    /\ ret = -2
    /\ Len(pushed) = SENSOR_BUFFER_SIZE - 1
    /\ sa.buffer_tail # 0
    /\ OverflowBit

\* the range of channel i as the claim C18 lists it
ClaimedRange(i) ==
    CASE i = 0 -> [lo |-> -10000, hi |-> 10000]
      [] i = 1 -> [lo |-> 0,      hi |-> 10000]
      [] i = 2 -> [lo |-> -40,    hi |-> 125]
      [] i = 3 -> [lo |-> 0,      hi |-> 5000]

Saturate(v, range) ==
    IF v < range.lo THEN range.lo ELSE IF v > range.hi THEN range.hi ELSE v

\* C18: for an enabled sensor array, every channel i and every value v:
\* sensor_read(i) right after set_simulated_value(i, v) returns v unclamped;
\* after one following trigger and update, sensor_read(i) returns v
\* saturated to the range of the channel.
C18_ClampOnUpdate ==
    /\ [][(/\ last_op = "set_value" /\ last_arg.id \in Channels
           /\ last_op' = "read" /\ last_arg'.id = last_arg.id)
          => ret' = last_arg.value]_vars
    /\ []((last_arg.stage = "updated" /\ last_arg.id \in Channels)
          => sensor_read(sa, last_arg.id)
                 = Saturate(last_arg.value, ClaimedRange(last_arg.id)))

\* C18 witness: the largest int32_t set on the temperature channel reads 125
\* after the trigger and the update
C18_Witness ==
    /\ last_arg.stage = "updated"
    /\ last_arg.id = 2
    /\ last_arg.value = MaxInt32
    /\ sensor_read(sa, 2) = 125

\* C19: sensor_array_trigger with the SENSOR_CTRL enable bit clear returns a
\* negative value and changes no channel state, no sample counter and no
\* register; with the enable bit set it returns 0, sets the SENSOR_CTRL
\* trigger bit, moves every idle channel to sampling with its sample counter
\* incremented by 1, and leaves channels in any other state unchanged.
C19_Trigger ==
    [][last_op' = "trigger"
       => IF ~SensorEnableBit
          THEN ret' < 0 /\ sa' = sa /\ regs' = regs
          ELSE /\ ret' = 0
               /\ TestBits(reg_read(regs', REG_SENSOR_CTRL), SENSOR_CTRL_TRIGGER)
               /\ \A i \in Channels :
                      IF sa.sensors[i].state = SENSOR_STATE_IDLE
                      THEN /\ sa'.sensors[i].state = SENSOR_STATE_SAMPLING
                           /\ sa'.sensors[i].sample_count
                                  = sa.sensors[i].sample_count + 1
                      ELSE sa'.sensors[i] = sa.sensors[i]]_vars

\* C19 witness: the second trigger that found the channels idle
C19_Witness ==
    /\ last_op = "trigger"
    /\ ret = 0
    /\ \A i \in Channels :
           /\ sa.sensors[i].state = SENSOR_STATE_SAMPLING
           /\ sa.sensors[i].sample_count = 2

(* ------------------------------------------------------------------ *)
(* Properties of the interrupt controller (SpecIrq)                   *)
(* ------------------------------------------------------------------ *)

IrqStatusReg == reg_read(regs, REG_IRQ_STATUS)

\* C20: irq_trigger(s) for a source s that is disabled leaves the pending mask
\* and the IRQ_STATUS register unchanged; for an enabled s it sets bit s in
\* both and changes no other bit.
C20_TriggerGate ==
    [][(last_op' = "irq_trigger" /\ last_arg' \in Sources)
       => IF TestBits(ic.enabled_irqs, Shl1(last_arg'))
          THEN /\ ic'.pending_irqs = BitOr(ic.pending_irqs, Shl1(last_arg'))
               /\ reg_read(regs', REG_IRQ_STATUS)
                      = BitOr(IrqStatusReg, Shl1(last_arg'))
          ELSE /\ ic'.pending_irqs = ic.pending_irqs
               /\ reg_read(regs', REG_IRQ_STATUS) = IrqStatusReg]_vars

\* C20 witness: the timer source, the only one enabled, has been triggered
\* and is the only one pending
C20_Witness ==
    /\ last_op = "irq_trigger"
    /\ last_arg = INT_TIMER
    /\ ic.enabled_irqs = Shl1(INT_TIMER)
    /\ ic.pending_irqs = Shl1(INT_TIMER)
    /\ IrqStatusReg = Shl1(INT_TIMER)

(* ------------------------------------------------------------------ *)
(* Further properties of the motor (Spec)                             *)
(* ------------------------------------------------------------------ *)

\* the fault code that the priority stall > overheat > overcurrent gives to
\* a MOTOR_STATUS word with a fault bit set
CodeByPriority(status) ==
    IF TestBits(status, MOTOR_STATUS_STALL) THEN MOTOR_FAULT_STALL
    ELSE IF TestBits(status, MOTOR_STATUS_OVERHEAT) THEN MOTOR_FAULT_OVERHEAT
    ELSE MOTOR_FAULT_OVERCURRENT

\* C27: on motor_update, if the state is not fault and one of the
\* MOTOR_STATUS bits fault, stall, overheat is set, the state becomes fault
\* and fault_code becomes stall, else overheat, else overcurrent, by the bits
\* set; that tick leaves current_speed, position and all registers
\* unchanged.  With no such bit set, no update enters fault.
C27_UpdateEntersFault ==
    /\ [][(/\ last_op' = "update" /\ mc.state # MOTOR_STATE_FAULT
           /\ ~NoFaultBits)
          => (/\ mc'.state = MOTOR_STATE_FAULT
              /\ mc'.fault_code = CodeByPriority(StatusReg)
              /\ mc'.current_speed = mc.current_speed
              /\ mc'.position = mc.position
              /\ regs' = regs)]_vars
    /\ [][(/\ last_op' = "update" /\ mc.state # MOTOR_STATE_FAULT
           /\ NoFaultBits)
          => mc'.state # MOTOR_STATE_FAULT]_vars

\* C27 witness: an update has left the motor in fault with code overheat
\* while the overcurrent bit is set as well, the motor having been braked
\* (brake bit set, speeds 0) after the faults were raised
C27_Witness ==
    /\ last_op = "update"
    /\ mc.state = MOTOR_STATE_FAULT
    /\ mc.fault_code = MOTOR_FAULT_OVERHEAT
    /\ TestBits(StatusReg, MOTOR_STATUS_FAULT)
    /\ TestBits(StatusReg, MOTOR_STATUS_OVERHEAT)
    /\ BrakeBit

\* C28 (as claimed): every update tick that takes the motor from starting to
\* running leaves current_speed = target_speed, also when motor_start was
\* called while current_speed was above the new target.
C28_StartingToRunningClaim ==
    [][(/\ last_op' = "update"
        /\ mc.state = MOTOR_STATE_STARTING
        /\ mc'.state = MOTOR_STATE_RUNNING)
       => mc'.current_speed = mc'.target_speed]_vars

\* C29 (as claimed): in state running with no fault bits, for current_speed c
\* and target t in 0..10000, one update yields min(t, c + 500) if c < t,
\* max(t, c - 500) if c > t and c if c = t; the state stays running.
C29_RunningStepClaim ==
    [][(/\ last_op' = "update"
        /\ mc.state = MOTOR_STATE_RUNNING
        /\ NoFaultBits
        /\ InRange(mc.current_speed)
        /\ InRange(mc.target_speed))
       => (/\ mc'.state = MOTOR_STATE_RUNNING
           /\ mc'.current_speed =
                  IF mc.current_speed < mc.target_speed
                  THEN Min(mc.target_speed, mc.current_speed + SPEED_RAMP_RATE)
                  ELSE IF mc.current_speed > mc.target_speed
                  THEN Max(mc.target_speed, mc.current_speed - SPEED_RAMP_RATE)
                  ELSE mc.current_speed)]_vars

IrqEnableReg == reg_read(regs, REG_IRQ_ENABLE)

\* C21 (as claimed): every bit set in the pending mask belongs to a source
\* that was enabled at the moment it was made pending, also with the two
\* bridged signals delivered at any point; a source that has never been
\* enabled is never pending.  As a property of steps: whenever a step makes a
\* source pending, the source is enabled when the step is taken (a source
\* never enabled can then never become pending).
C21_PendingWasEnabledClaim ==
    [][\A s \in Sources :
           (~Pending(ic, s) /\ Pending(ic', s)) => Enabled(ic, s)]_vars

\* C22 (as claimed): after every call of the interrupt controller and after
\* every run of the signal bridge, IRQ_STATUS equals the pending mask and
\* IRQ_ENABLE equals the enabled mask.
C22_RegistersShadowMasksClaim ==
    /\ IrqStatusReg = ic.pending_irqs
    /\ IrqEnableReg = ic.enabled_irqs

\* C23: right after irq_process_pending returns (no signal delivered during
\* the call) the pending mask is 0 and IRQ_STATUS is 0, whichever sources
\* were pending, with or without handlers, and also when a handler called
\* irq_trigger during the drain.
C23_DrainClears ==
    last_op = "irq_process_pending"
        => (ic.pending_irqs = 0 /\ IrqStatusReg = 0)

\* C23 witness: the drain has run a handler that triggered an enabled source,
\* and nothing is pending afterwards
C23_Witness ==
    /\ last_op = "irq_process_pending"
    /\ \E k \in DOMAIN log :
           /\ ic.handlers[log[k].source] = "retrigger"
           /\ Enabled(ic, log[k].context)
    /\ ic.pending_irqs = 0
    /\ IrqStatusReg = 0

\* the sources the loop of irq_process_pending finds pending when no handler
\* triggers one: those pending at the call, and the timer when the signal
\* latch is set and the timer is enabled
PendingAtDrain ==
    BitsOf(ic.pending_irqs)
        \cup (IF ic.signal_received # 0 /\ Enabled(ic, INT_TIMER)
              THEN {INT_TIMER} ELSE {})

\* C24: irq_process_pending calls the handler of exactly the sources that are
\* pending and have a registered handler, each once, in ascending source
\* index, with the context given at registration, and returns the number of
\* handlers it called; pending sources without a handler are not counted.
\* (Which sources are pending is fixed at the call when no handler triggers
\* a source; the order, the contexts and the count hold for every handler.)
C24_DrainDispatch ==
    [][last_op' = "irq_process_pending"
       => (/\ ret' = Len(log')
           /\ \A k \in DOMAIN log' :
                  /\ ic.handlers[log'[k].source] # NoHandler
                  /\ log'[k].context = ic.handler_contexts[log'[k].source]
                  /\ \A j \in DOMAIN log' :
                         j < k => log'[j].source < log'[k].source
           /\ (\A i \in Sources : ic.handlers[i] # "retrigger")
                  => {log'[k].source : k \in DOMAIN log'}
                         = {i \in PendingAtDrain : ic.handlers[i] # NoHandler})]_vars

\* C24 witness: a drain has called two callbacks registered with different
\* contexts, the lower source first, and returned 2, while the sensor-ready
\* source had no handler
C24_Witness ==
    /\ last_op = "irq_process_pending"
    /\ ret = 2
    /\ log = <<[source |-> INT_MOTOR_FAULT, context |-> 2],
               [source |-> INT_TIMER, context |-> 1]>>
    /\ ic.handlers[INT_SENSOR_READY] = NoHandler
    /\ Enabled(ic, INT_SENSOR_READY)

(* ------------------------------------------------------------------ *)
(* Properties of the signal bridge (SpecIrqAsync)                     *)
(* ------------------------------------------------------------------ *)

\* C25 (as claimed): a bridged signal delivered at any instruction boundary,
\* also in the middle of irq_process_pending, irq_trigger or irq_clear, is
\* never lost: when its source is enabled and has a handler, the handler is
\* called in the current or a later drain.  A handler is called only for a
\* source whose pending bit is set, so a signal that is still owed its
\* handler call must have its pending bit set.
C25_SignalNotLostClaim ==
    \A s \in owed : Pending(ic, s)

(* ------------------------------------------------------------------ *)
(* Properties of the driver loop (FairSpecLoop)                       *)
(* ------------------------------------------------------------------ *)

\* the main thread has left the while loop
LoopExited == drv.pc \in {"shutdown", "exited"}

\* C26 (as claimed): once g_running is cleared by SIGINT / SIGTERM or the
\* shutdown flag of the shared region is true, the driver loop eventually
\* exits, also when no command is ever sent: no step of a tick waits for
\* ever.
C26_LoopExitsClaim ==
    (drv.g_running = 0 \/ shm.shutdown_requested) ~> LoopExited

(* ------------------------------------------------------------------ *)
(* Properties of the ramp-down and of the fault state (Spec)          *)
(* ------------------------------------------------------------------ *)

\* the speed the motor had when its ramp-down began: each tick in state
\* stopping so far took SPEED_RAMP_RATE off it
DrainStart == mc.current_speed + SPEED_RAMP_RATE * ticks

\* an update tick of a ramp-down that began at a multiple 500 * k, k >= 1, of
\* the ramp step
DrainTick ==
    /\ phase = "drain"
    /\ mc.state = MOTOR_STATE_STOPPING
    /\ last_op' = "update"
    /\ DrainStart >= SPEED_RAMP_RATE
    /\ DrainStart % SPEED_RAMP_RATE = 0

\* C31 (as claimed): in state stopping with current_speed 500 * k, k >= 1,
\* the motor reaches idle on update tick k + 1, one tick more than a plain
\* ramp of 500 per tick takes.
C31_ExtraTickClaim ==
    [][DrainTick
       => (mc.state' = MOTOR_STATE_IDLE
           <=> ticks' = DrainStart \div SPEED_RAMP_RATE + 1)]_vars

\* C31: in state stopping with current_speed 500 * k, k >= 1, the motor
\* reaches idle on update tick k, and on no earlier tick: the tick that finds
\* current_speed = 500 takes it to 0 and goes idle at once.
C31_IdleOnTickK ==
    [][DrainTick
       => (/\ mc.state' = MOTOR_STATE_IDLE
               <=> ticks' = DrainStart \div SPEED_RAMP_RATE
           /\ mc.state' = MOTOR_STATE_IDLE => mc.current_speed' = 0)]_vars

\* C31 witness: idle reached on the third tick of a ramp-down from 1500
C31_Witness ==
    /\ phase = "drain"
    /\ ticks = 3
    /\ last_op = "update"
    /\ mc.state = MOTOR_STATE_IDLE
    /\ mc.current_speed = 0
    /\ mc.position # 0

\* C32 (as claimed): once the motor state is fault it stays fault under every
\* operation except clear_fault and reset: update, start, set_speed, stop and
\* brake called in fault leave the state fault.
C32_FaultStaysClaim ==
    [][(mc.state = MOTOR_STATE_FAULT
        /\ last_op' \in {"update", "start", "set_speed", "stop", "brake"})
       => mc.state' = MOTOR_STATE_FAULT]_vars

(* ------------------------------------------------------------------ *)
(* Properties of handlers that trigger, of repeated drains and of the *)
(* signal latch (SpecIrq)                                             *)
(* ------------------------------------------------------------------ *)

\* C33 (as claimed): a source triggered from inside a handler while
\* irq_process_pending is draining is not dispatched in that same drain,
\* whatever its index relative to the running handler (so every source the
\* drain dispatches was pending when its loop began), and it is seen by the
\* next drain (so it is pending when the drain returns).
C33_RetriggerDeferredClaim ==
    [][last_op' = "irq_process_pending"
       => \A k \in DOMAIN log' :
              /\ log'[k].source \in PendingAtDrain
              /\ (/\ ic.handlers[log'[k].source] = "retrigger"
                  /\ Enabled(ic, log'[k].context))
                     => Pending(ic', log'[k].context)]_vars

\* C34: the handler of a source is called once in every drain at whose
\* dispatch the source is pending, and at no other time, however many
\* triggers came in between (they coalesce into one bit): a drain adds to
\* irq_callback_count the number of pending sources that have the counting
\* handler and leaves the pending mask 0; no other call changes the counter.
\* So trigger, process_pending, trigger, process_pending adds exactly 2, and
\* two triggers before one drain add 1.
C34_CallsPerDrain ==
    [][/\ last_op' = "irq_process_pending"
          => (/\ drv'.irq_callback_count
                     = drv.irq_callback_count
                         + Cardinality({s \in PendingAtDrain :
                                            ic.handlers[s] = "counting"})
              /\ ic'.pending_irqs = 0)
       /\ last_op' # "irq_process_pending"
          => drv'.irq_callback_count = drv.irq_callback_count]_vars

\* C34 witness: the second call of the counting handler, made by a drain that
\* found the motor-fault source pending again
C34_Witness ==
    /\ last_op = "irq_process_pending"
    /\ drv.irq_callback_count = 2
    /\ ret = 1
    /\ log = <<[source |-> INT_MOTOR_FAULT, context |-> 0]>>
    /\ ic.pending_irqs = 0

\* the sources whose handler the last drain called
Dispatched(l) == {l[k].source : k \in DOMAIN l}

\* no registered handler triggers a source
NoRetrigger == \A i \in Sources : ic.handlers[i] # "retrigger"

\* the parts C35 and its claimed form share: a delivery of a bridged signal
\* sets the latch; a drain leaves the latch clear; a drain that finds no
\* latch calls the timer handler only for a timer that was pending at the
\* call; a signal delivered after irq_cleanup changes nothing of the
\* controller or the registers
LatchRules ==
    /\ (last_op' = "irq_signal_handler" /\ drv.g_irq_controller)
          => ic'.signal_received = 1
    /\ last_op' = "irq_process_pending" => ic'.signal_received = 0
    /\ (/\ last_op' = "irq_process_pending" /\ ic.signal_received = 0
        /\ NoRetrigger)
          => (INT_TIMER \in Dispatched(log')
                  <=> (/\ Pending(ic, INT_TIMER)
                       /\ ic.handlers[INT_TIMER] # NoHandler))
    /\ (last_op' = "irq_signal_handler" /\ ~drv.g_irq_controller)
          => (ic' = ic /\ regs' = regs)

\* C35 (as claimed): every delivery of a bridged signal sets the latch; the
\* next irq_process_pending clears it and triggers the timer under the gating
\* rule, so the timer handler runs in that drain exactly when the timer is
\* enabled and has a handler; without a signal since the previous drain the
\* drain never triggers the timer; after irq_cleanup a delivered signal
\* changes no controller state.
C35_LatchTimerClaim ==
    [][/\ LatchRules
       /\ (last_op' = "irq_process_pending" /\ ic.signal_received # 0)
             => (INT_TIMER \in Dispatched(log')
                     <=> (/\ Enabled(ic, INT_TIMER)
                          /\ ic.handlers[INT_TIMER] # NoHandler))]_vars

\* C35: as claimed, except that in the drain that finds the latch set the
\* timer handler runs exactly when the timer has a handler and is enabled or
\* was already pending at the call: the dispatch loop tests the pending bit,
\* not the enabled bit.
C35_LatchTimer ==
    [][/\ LatchRules
       /\ (last_op' = "irq_process_pending" /\ ic.signal_received # 0)
             => (INT_TIMER \in Dispatched(log')
                     <=> (/\ Enabled(ic, INT_TIMER) \/ Pending(ic, INT_TIMER)
                          /\ ic.handlers[INT_TIMER] # NoHandler))]_vars

\* C35 witness: a drain found the latch set by SIGUSR2, cleared it and called
\* the timer handler, although the signal's own source has no handler
C35_Witness ==
    /\ last_op = "irq_process_pending"
    /\ last_arg = 1
    /\ drv.bridge
    /\ ic.signal_received = 0
    /\ log = <<[source |-> INT_TIMER, context |-> 1]>>
    /\ Enabled(ic, INT_TIMER)
    /\ ic.pending_irqs = 0

(* ------------------------------------------------------------------ *)
(* Properties of the continuous mode (SpecSensor)                     *)
(* ------------------------------------------------------------------ *)

\* the entries of the ring of s, oldest first
Ring(s) ==
    [k \in 1 .. sensor_buffer_count(s) |->
        s.buffer[(s.buffer_tail + k - 1) % SENSOR_BUFFER_SIZE]]

\* the samples an update has to take: the value of every sampling channel,
\* saturated to the channel's range, in channel order
DueSamples ==
    LET ids == SelectSeq(<<0, 1, 2, 3>>,
                         LAMBDA i : sa.sensors[i].state = SENSOR_STATE_SAMPLING)
    IN  [k \in 1 .. Len(ids) |->
            Saturate(sa.sensors[ids[k]].value,
                     [lo |-> sa.sensors[ids[k]].min_value,
                      hi |-> sa.sensors[ids[k]].max_value])]

\* as many of them as the ring has room for
TakenSamples ==
    SubSeq(DueSamples, 1,
           Min(Len(DueSamples),
               SENSOR_BUFFER_SIZE - 1 - sensor_buffer_count(sa)))

\* C36: with the array enabled and continuous mode on, sensor_array_update
\* appends to the ring one clamped sample per sampling channel, in channel
\* order, as far as the ring has room (15 entries), sets the overflow bit when
\* a sample found the ring full, drops that sample without changing the
\* buffered values, and re-triggers: every channel is sampling and the
\* trigger bit is set when it returns.  With continuous mode off, update
\* leaves the ring as it was, leaves no channel sampling and leaves the
\* trigger bit clear.
C36_ContinuousUpdate ==
    [][last_op' = "update"
       => /\ (SensorEnableBit /\ sa.continuous_mode)
             => (/\ Ring(sa') = Ring(sa) \o TakenSamples
                 /\ Len(TakenSamples) < Len(DueSamples)
                    => TestBits(reg_read(regs', REG_SENSOR_STATUS),
                                SENSOR_STATUS_OVERFLOW)
                 /\ \A i \in Channels :
                        sa'.sensors[i].state = SENSOR_STATE_SAMPLING
                 /\ TestBits(reg_read(regs', REG_SENSOR_CTRL),
                             SENSOR_CTRL_TRIGGER))
          /\ ~sa.continuous_mode
             => (/\ Ring(sa') = Ring(sa)
                 /\ \A i \in Channels :
                        sa'.sensors[i].state # SENSOR_STATE_SAMPLING
                 /\ ~TestBits(reg_read(regs', REG_SENSOR_CTRL),
                              SENSOR_CTRL_TRIGGER))]_vars

\* C36 witness: an update in continuous mode found the ring short of room,
\* filled it to 15 entries, set the overflow bit and left every channel
\* sampling for the second time with the trigger bit set
C36_Witness ==
    /\ last_op = "update"
    /\ sa.continuous_mode
    /\ SensorEnableBit
    /\ Len(Ring(sa)) = SENSOR_BUFFER_SIZE - 1
    /\ OverflowBit
    /\ TestBits(reg_read(regs, REG_SENSOR_CTRL), SENSOR_CTRL_TRIGGER)
    /\ \A i \in Channels :
           /\ sa.sensors[i].state = SENSOR_STATE_SAMPLING
           /\ sa.sensors[i].sample_count = 2

(* ------------------------------------------------------------------ *)
(* Properties of the shutdown and of the mailbox (SpecLoop)           *)
(* ------------------------------------------------------------------ *)

\* C37 (as claimed): after the driver loop exits, the shutdown sequence
\* (motor_stop, then motor_update ticks until the motor reports it is no
\* longer running) terminates, and when it goes on to disable the sensors
\* the motor has ramped down: with no fault present, state idle,
\* current_speed 0 and the MOTOR_STATUS running bit clear.
C37_ShutdownRampsDownClaim ==
    (/\ drv.pc = "exited"
     /\ mc.state # MOTOR_STATE_FAULT
     /\ mc.fault_code = MOTOR_FAULT_NONE
     /\ NoFaultBits)
        => (/\ mc.state = MOTOR_STATE_IDLE
            /\ mc.current_speed = 0
            /\ ~RunningBit)

\* the main thread returns from shm_get_command with a command of the
\* mailbox and finishes the iteration
TakesCommand ==
    /\ drv.pc = "get_command"
    /\ drv'.pc = "while"
    /\ shm.cmd_pending
    /\ ~shm.shutdown_requested

\* C38 (as claimed): every command placed in the mailbox by shm_send_command,
\* of any kind (kind none and kinds outside the defined set included), is
\* answered by the driver loop with one response, after which cmd_pending is
\* false and the next shm_send_command can proceed; a pending command is
\* never overwritten before it is answered.  The loop answers a command in
\* the iteration that takes it from the mailbox or never: a command that
\* iteration leaves pending is found unchanged by every later one.
C38_EveryCommandAnsweredClaim ==
    [][/\ TakesCommand
          => (/\ ~shm'.cmd_pending
              /\ shm'.resp_ready_flag
              /\ CanSendCommand(shm'))
       /\ (shm.created /\ shm'.created /\ shm.cmd_pending)
          => (/\ shm'.cmd = shm.cmd
              /\ shm'.cmd_param1 = shm.cmd_param1
              /\ shm'.cmd_param2 = shm.cmd_param2)]_vars

\* C39 (as claimed): with two client processes that each call
\* shm_send_command followed by shm_wait_response concurrently against one
\* driver, each client's shm_wait_response returns the response the driver
\* produced for that client's own command (so it returns only once that
\* command has been answered, with the status and the data of that answer),
\* and neither client blocks for ever.
C39_OwnResponseClaim ==
    [][\A i \in Clients :
           (cli[i].pc \in {"sent", "answered"} /\ cli'[i].pc = "idle")
               => (/\ cli[i].pc = "answered"
                   /\ cli'[i].status = cli[i].due_status
                   /\ cli'[i].data = cli[i].due_data)]_vars

(* ------------------------------------------------------------------ *)
(* Properties of the register frames (SpecFrame)                      *)
(* ------------------------------------------------------------------ *)

\* the offsets of the registers of each component
MotorRegisters  == {REG_MOTOR_CTRL, REG_MOTOR_STATUS, REG_MOTOR_SPEED,
                    REG_MOTOR_POSITION}
SensorRegisters == {REG_SENSOR_CTRL, REG_SENSOR_DATA, REG_SENSOR_STATUS}
IrqRegisters    == {REG_IRQ_STATUS, REG_IRQ_ENABLE}

\* the step leaves every register of the set as it was
SameRegisters(offsets) ==
    \A o \in offsets : reg_read(regs', o) = reg_read(regs, o)

\* C40: each component writes only its own registers.  A motor operation
\* leaves registers 0x10..0x20 and the sensor and interrupt-controller state
\* unchanged; a sensor operation leaves registers 0x00..0x0C and 0x1C..0x20
\* and the motor and interrupt-controller state unchanged; an operation of
\* the interrupt controller (the handlers it calls change none of this)
\* leaves registers 0x00..0x18 and the motor and sensor state unchanged.
C40_ComponentFrames ==
    [][/\ env.comp = "motor"
          => /\ SameRegisters(SensorRegisters \cup IrqRegisters)
             /\ sa' = sa
             /\ ic' = ic
       /\ env.comp = "sensor"
          => /\ SameRegisters(MotorRegisters \cup IrqRegisters)
             /\ mc' = mc
             /\ ic' = ic
       /\ env.comp = "irq"
          => /\ SameRegisters(MotorRegisters \cup SensorRegisters)
             /\ mc' = mc
             /\ sa' = sa]_vars

\* motor_reset has run on a controller that had moved, and the sensor
\* trigger bit and the pending motor-fault interrupt are still in their
\* registers
C40_Witness ==
    /\ env.name = "frame"
    /\ env.comp = "motor"
    /\ last_op = "reset"
    /\ reg_read(regs, REG_MOTOR_CTRL) = 0
    /\ TestBits(reg_read(regs, REG_SENSOR_CTRL), SENSOR_CTRL_TRIGGER)
    /\ TestBits(reg_read(regs, REG_IRQ_STATUS), Shl1(INT_MOTOR_FAULT))
    /\ reg_read(regs, REG_IRQ_ENABLE) # 0

==========================================================================
